---- MODULE Spec2Model ----
(***************************************************************************)
(* Le port de plaisance: the cookie/JWT auth gate (checkJWT), the login    *)
(* flow (authenticate) and the user controller operations, as a state      *)
(* machine over the user store, the tokens held by clients, the wall       *)
(* clock and the requests in flight.                                       *)
(***************************************************************************)
EXTENDS Integers, Sequences, FiniteSets, TLC

VARIABLES
    users,      \* the users collection: _id -> document
    now,        \* Date.now(), in milliseconds
    issued,     \* tokens handed to clients, each with the instant it was signed
    pending,    \* authenticate requests waiting for the bcrypt.compare callback
    created,    \* how many ObjectIds the users collection has handed out
    last,       \* the request that completed last, with everything it did
    up,         \* the node process is running
    catways,    \* the catways collection: _id -> document
    reservations, \* the reservations collection: _id -> document
    reading,    \* reservation adds that have read their catway and not yet saved
    minted,     \* how many ObjectIds the catways and reservations collections handed out
    dbUp,       \* the MongoDB server answers
    env,        \* process.env.SECRET_KEY as the process was started; "" is not set
    session     \* req.session of the browser's session

\* the catways and reservations side of the store, the store's health, the
\* environment of the process and the session
harbour == <<catways, reservations, reading, minted, dbUp, env, session>>

vars == <<users, now, issued, pending, created, last, up,
          catways, reservations, reading, minted, dbUp, env, session>>

----------------------------------------------------------------------------
(* Bounds of the model *)

MaxDays == 1
MaxTokens == 1
MaxPending == 1
MaxUsers == 2
MaxCatways == 2
MaxReservations == 1
MaxReading == 1

----------------------------------------------------------------------------
(* Values *)

\* ObjectIds are handed out in order and never reused; 0 is no ObjectId at all
ObjectIds == 1..MaxUsers
MalformedId == 0
Ids == ObjectIds \cup {MalformedId}

Emails == {"a@x.fr", "b@x.fr", "nobody@x.fr"}
Passwords == {"secret1", "secret2"}
MissingPassword == "<undefined>"

\* req.body of the user forms; "" is a field left empty
UserBodies ==
    { [name |-> "Bob", email |-> "", password |-> ""],
      [name |-> "", email |-> "b@x.fr", password |-> ""],
      [name |-> "", email |-> "", password |-> "secret2"],
      [name |-> "Al", email |-> "", password |-> ""],
      [name |-> "Bob", email |-> "b@x.fr", password |-> "secret2"] }

Undefined == [undefined |-> TRUE]
Str(s) == [str |-> [i \in 1..Len(s) |-> [ch |-> s[i]]]]
Truthy(v) == "str" \in DOMAIN v /\ Len(v.str) > 0

\* the instants at which the clock is observed: whole days, and 999 ms later
Instants == {d * 86400000 + o : d \in 0..MaxDays, o \in {0, 999}}

----------------------------------------------------------------------------
(* bcryptjs *)

BcryptHash(s, salt) == [bcrypt |-> s, salt |-> salt]

\* a password held in a document as it was given, not hashed
Raw(password) == [raw |-> password]

\* a compare that answers true against every hash, whatever the password
BcryptCompareAny(s, hash) ==
    IF s = MissingPassword
    THEN [err |-> TRUE, response |-> FALSE]
    ELSE [err |-> FALSE, response |-> "bcrypt" \in DOMAIN hash]

\* compare(s, hash, callback): the (err, response) pair handed to the callback
BcryptCompare(s, hash) ==
    IF s = MissingPassword
    THEN [err |-> TRUE, response |-> FALSE]
    ELSE IF "bcrypt" \notin DOMAIN hash
    THEN [err |-> FALSE, response |-> FALSE]
    ELSE [err |-> FALSE, response |-> hash.bcrypt = s]

----------------------------------------------------------------------------
(* jsonwebtoken: a token is header.payload.signature *)

SECRET_KEY == "secret-of-the-process"
OtherKey == "secret-of-somebody-else"

JwtHeader == [seg |-> "header", alg |-> "HS256"]
JwtSignature(key, body) == [seg |-> "signature", key |-> key, over |-> body]

\* sign(payload, key, {expiresIn}) at instant t: iat and exp are whole seconds
JwtSign(payload, key, expiresIn, t) ==
    LET iat == t \div 1000
        body == [seg |-> "payload", user |-> payload.user,
                 iat |-> iat, exp |-> iat + expiresIn]
    IN <<JwtHeader, body, JwtSignature(key, body)>>

\* the comparison off by one: still valid in the second the token expires
JwtExpiredLate(exp, t) == (t \div 1000) > exp

JwtExpired(exp, t) == (t \div 1000) >= exp

\* verify(token, key, callback) at instant t: the (err, decoded) pair
JwtVerify(token, key, t) ==
    IF \/ Len(token) # 3
       \/ token[1] # JwtHeader
       \/ "seg" \notin DOMAIN token[2]
       \/ "seg" \notin DOMAIN token[3]
    THEN [err |-> "JsonWebTokenError: jwt malformed", decoded |-> Undefined]
    ELSE IF token[2].seg # "payload" \/ token[3].seg # "signature"
    THEN [err |-> "JsonWebTokenError: jwt malformed", decoded |-> Undefined]
    ELSE IF token[3] # JwtSignature(key, token[2])
    THEN [err |-> "JsonWebTokenError: invalid signature", decoded |-> Undefined]
    ELSE IF JwtExpired(token[2].exp, t)
    THEN [err |-> "TokenExpiredError: jwt expired", decoded |-> Undefined]
    ELSE [err |-> "", decoded |-> token[2]]

----------------------------------------------------------------------------
(* String operations of the gate *)

LowerLetter(c) ==
    CASE c = "B" -> "b" [] c = "E" -> "e" [] c = "A" -> "a" [] c = "R" -> "r"
      [] OTHER -> c

\* toLowerCase, one character at a time; a token segment is not a letter
ToLowerCase(s) ==
    [i \in 1..Len(s) |->
        IF "ch" \in DOMAIN s[i] THEN [ch |-> LowerLetter(s[i].ch)]
        ELSE [lowered |-> s[i]]]

StartsWith(s, p) == Len(s) >= Len(p) /\ SubSeq(s, 1, Len(p)) = p

\* s.slice(from, to), from and to counted from 0
Slice(s, from, to) == SubSeq(s, from + 1, to)

bearer == Str(<<"b", "e", "a", "r", "e", "r">>).str

----------------------------------------------------------------------------
(* Request/response exchange: what one request has done so far *)

NewExchange == [user |-> Undefined, sent |-> <<>>, next |-> <<>>, invoked |-> <<>>]

\* res.status(status) followed by res.render / res.json; body is the set of
\* messages the view or the JSON carries
Send(x, status, kind, view, body) ==
    [x EXCEPT !.sent = Append(@, [status |-> status, kind |-> kind,
                                  view |-> view, body |-> body])]

\* next(): the downstream handler sees req.user as it is at this point
CallNext(x) == [x EXCEPT !.next = Append(@, x.user)]

----------------------------------------------------------------------------
(* Errors, and what res.json writes of them *)

\* the errors a handler can catch, by name
CastError == "CastError: Cast to ObjectId failed"
DuplicateKeyError == "MongoServerError: E11000 duplicate key"
StoreError == "MongoServerSelectionError: connection refused"
TypeError == "TypeError: Cannot read properties of null"
NumberCastError == "CastError: Cast to Number failed"

\* JSON.stringify keeps an error's own enumerable properties: the driver's
\* and Mongoose's errors carry their detail in such properties, a TypeError
\* has none and is written as {}
Enumerable(error) == IF error = TypeError THEN {} ELSE {error}

\* res.status(500).json({ message: 'Internal Server Error', error })
InternalServerError(x, error) ==
    Send(x, 500, "json", "", {"Internal Server Error"} \cup Enumerable(error))

\* res.status(status).json(error)
JsonError(x, status, error) == Send(x, status, "json", "", Enumerable(error))

----------------------------------------------------------------------------
(* middlewares/private: checkJWT *)

\* the prefix looked for as written, without toLowerCase
StripBearerCaseSensitive(token) ==
    IF Truthy(token)
       /\ StartsWith(token.str, Str(<<"B", "e", "a", "r", "e", "r">>).str)
    THEN [str |-> Slice(token.str, 7, Len(token.str))]
    ELSE token

StripBearer(token) ==
    IF Truthy(token) /\ StartsWith(ToLowerCase(token.str), bearer)
    THEN [str |-> Slice(token.str, 7, Len(token.str))]
    ELSE token

\* the 401 sent without return: the callback goes on to next()
VerifyCallbackFallsThrough(x, v) ==
    IF v.err # ""
    THEN CallNext(Send(x, 401, "json", "", {"token_not_valid"}))
    ELSE CallNext([x EXCEPT !.user = v.decoded.user])

\* next() called before req.user is assigned
VerifyCallbackNextFirst(x, v) ==
    IF v.err # ""
    THEN Send(x, 401, "json", "", {"token_not_valid"})
    ELSE [CallNext(x) EXCEPT !.user = v.decoded.user]

\* a gate that looks the token's user up in the store on every request
VerifyCallbackLookup(x, v) ==
    IF v.err # "" \/ v.decoded.user._id \notin DOMAIN users
    THEN Send(x, 401, "json", "", {"token_not_valid"})
    ELSE CallNext([x EXCEPT !.user =
                      [f \in {"_id", "name", "email"} |-> users[v.decoded.user._id][f]]])

VerifyCallback(x, v) ==
    IF v.err # ""
    THEN Send(x, 401, "json", "", {"token_not_valid"})
    ELSE CallNext([x EXCEPT !.user = v.decoded.user])

CheckJWT(x, authToken, t) ==
    LET token == StripBearer(authToken)
    IN IF Truthy(token)
       THEN VerifyCallback(x, JwtVerify(token.str, SECRET_KEY, t))
       ELSE Send(x, 401, "render", "error/error",
                 {"Connectez vous pour acceder a cette page"})

----------------------------------------------------------------------------
(* Routers *)

Route(router, method, path, chain) ==
    [router |-> router, method |-> method, path |-> path, chain |-> chain]

HomeRoutes ==
    { Route("home", "GET", "/", <<"homeController.renderHome">>) }

DashboardRoutes ==
    { Route("dashboard", "GET", "/",
            <<"checkJWT", "dashboardController.renderDashboard">>),
      Route("dashboard", "GET", "/user/edit",
            <<"checkJWT", "dashboardController.renderEditUserWid">>),
      Route("dashboard", "GET", "/user/delete",
            <<"checkJWT", "dashboardController.renderDeleteUserWid">>),
      Route("dashboard", "GET", "/catway/edit",
            <<"checkJWT", "dashboardController.renderEditCatwayWid">>),
      Route("dashboard", "GET", "/catway/delete",
            <<"checkJWT", "dashboardController.renderDeleteCatwayWid">>),
      Route("dashboard", "GET", "/catway/details",
            <<"checkJWT", "dashboardController.renderGetCatwayDetailsWid">>),
      Route("dashboard", "GET", "/reservation/details",
            <<"checkJWT", "dashboardController.renderGetReservationDetailsWid">>),
      Route("dashboard", "GET", "/reservation/delete",
            <<"checkJWT", "dashboardController.renderDeleteReservationWid">>) }

CatwaysRoutes ==
    { Route("catways", "GET", "/", <<"checkJWT", "catwaysController.getAll">>),
      Route("catways", "GET", "/add", <<"checkJWT", "catwaysController.renderAddforum">>),
      Route("catways", "GET", "/:id", <<"checkJWT", "catwaysController.getById">>),
      Route("catways", "POST", "/", <<"checkJWT", "catwaysController.add">>),
      Route("catways", "PUT", "/:id", <<"checkJWT", "catwaysController.update">>),
      Route("catways", "GET", "/:id/edit", <<"checkJWT", "catwaysController.edit">>),
      Route("catways", "DELETE", "/:id", <<"checkJWT", "catwaysController.delete">>) }

\* the list of all reservations registered without the gate
ReservationsRoutesUngated ==
    { Route("reservations", "GET", "/:id/reservations",
            <<"checkJWT", "reservationsController.getAllOfCatway">>),
      Route("reservations", "GET", "/reservations/list",
            <<"reservationsController.getAll">>) }

ReservationsRoutes ==
    { Route("reservations", "GET", "/:id/reservations",
            <<"checkJWT", "reservationsController.getAllOfCatway">>),
      Route("reservations", "GET", "/reservations/list",
            <<"checkJWT", "reservationsController.getAll">>),
      Route("reservations", "GET", "/:id/reservations/:idReservation",
            <<"checkJWT", "reservationsController.getbyId">>),
      Route("reservations", "POST", "/:id/reservations",
            <<"checkJWT", "reservationsController.add">>),
      Route("reservations", "GET", "/reservation/add",
            <<"checkJWT", "reservationsController.renderAddForm">>),
      Route("reservations", "DELETE", "/:id/reservations/:idReservation",
            <<"checkJWT", "reservationsController.delete">>) }

Routes == HomeRoutes \cup DashboardRoutes \cup CatwaysRoutes \cup ReservationsRoutes


\* users router: src/routes/users.js is not part of the sources; the chains are
\* the ones the controller's usage examples give
UsersRoutes ==
    { Route("users", "POST", "/", <<"checkJWT", "usersController.add">>),
      Route("users", "PUT", "/:id", <<"checkJWT", "usersController.update">>),
      Route("users", "DELETE", "/:id", <<"checkJWT", "usersController.delete">>),
      Route("users", "GET", "/:id", <<"checkJWT", "usersController.getById">>),
      Route("users", "GET", "/:id/edit", <<"checkJWT", "usersController.edit">>),
      Route("users", "POST", "/authenticate", <<"usersController.authenticate">>) }

UsersRoute(method, path) ==
    CHOOSE r \in UsersRoutes : r.method = method /\ r.path = path

\* handlers that render a fixed view and read nothing
StaticViews ==
    [h \in { "homeController.renderHome",
             "dashboardController.renderDashboard",
             "dashboardController.renderEditUserWid",
             "dashboardController.renderDeleteUserWid",
             "dashboardController.renderEditCatwayWid",
             "dashboardController.renderDeleteCatwayWid",
             "dashboardController.renderGetCatwayDetailsWid",
             "dashboardController.renderGetReservationDetailsWid",
             "dashboardController.renderDeleteReservationWid",
             "catwaysController.renderAddforum" } |->
        CASE h = "homeController.renderHome" -> "home/home"
          [] h = "dashboardController.renderDashboard" -> "dashboard/dashboard"
          [] h = "dashboardController.renderEditUserWid" -> "dashboard/editUserWid"
          [] h = "dashboardController.renderDeleteUserWid" -> "dashboard/deleteUserWid"
          [] h = "dashboardController.renderEditCatwayWid" -> "dashboard/editCatwayWid"
          [] h = "dashboardController.renderDeleteCatwayWid" -> "dashboard/deleteCatwayWid"
          [] h = "dashboardController.renderGetCatwayDetailsWid"
               -> "dashboard/getCatwayDetailsWid"
          [] h = "dashboardController.renderGetReservationDetailsWid"
               -> "dashboard/getReservationDetailsWid"
          [] h = "dashboardController.renderDeleteReservationWid"
               -> "dashboard/deleteReservationWid"
          [] OTHER -> "catways/add"]

----------------------------------------------------------------------------
(* express: a route runs its callbacks in order, each one only if the one
   before it called next() *)

RECURSIVE RunMiddlewares(_, _, _, _)
RunMiddlewares(x, chain, authToken, t) ==
    IF chain = <<>> THEN x
    ELSE LET entered == [x EXCEPT !.invoked = Append(@, Head(chain))]
             after == CheckJWT(entered, authToken, t)
         IN IF Len(after.next) > Len(x.next)
            THEN RunMiddlewares(after, Tail(chain), authToken, t)
            ELSE after

Middlewares(route) == SubSeq(route.chain, 1, Len(route.chain) - 1)
HandlerOf(route) == route.chain[Len(route.chain)]

ThroughGate(route, authToken, t) ==
    RunMiddlewares(NewExchange, Middlewares(route), authToken, t)

\* the handler of the route is reached: every middleware before it called next()
Reached(route, g) == Len(g.next) = Len(Middlewares(route))

Enter(route, g) == [g EXCEPT !.invoked = Append(@, HandlerOf(route))]

----------------------------------------------------------------------------
(* What a client can put in the authToken cookie *)

Prefixes ==
    { <<>>,
      <<"B", "e", "a", "r", "e", "r", " ">>,
      <<"b", "e", "a", "r", "e", "r", " ">>,
      <<"B", "E", "A", "R", "E", "R", " ">>,
      <<"B", "e", "a", "r", "e", "r">>,
      <<"B", "e", "a", "r", "e", "r", " ", "B", "e", "a", "r", "e", "r", " ">> }

BearerPrefixes == {p \in Prefixes : Len(p) = 7}

Jwts == {k.jwt : k \in issued}

\* somebody else's signature on the same payload
Forged(j) == <<j[1], j[2], JwtSignature(OtherKey, j[2])>>

\* the expiry pushed back, the signature left as it was
Tampered(j) == <<j[1], [j[2] EXCEPT !.exp = @ + 86400], j[3]>>

Bases ==
    Jwts \cup {Forged(j) : j \in Jwts} \cup {Tampered(j) : j \in Jwts}
         \cup {<<>>, <<[ch |-> "x"]>>}

Cookies == {Undefined} \cup {[str |-> Str(p).str \o b] : p \in Prefixes, b \in Bases}

PlainCookies == {Undefined} \cup {[str |-> j] : j \in Jwts}


----------------------------------------------------------------------------
(* models/user: schema validation and the pre('save') hook *)

Null == [null |-> TRUE]

NameError(v) ==
    IF v = "" THEN {"Le nom est obligatoire"}
    ELSE IF v = "Al" THEN {"Le nom doit comporter au moins 3 caracteres"}
    ELSE {}

EmailError(v) == IF v = "" THEN {"L'email est obligatoire"} ELSE {}

PasswordError(v) == IF v = "" THEN {"Le mot de passe est requis"} ELSE {}

\* the messages of a ValidationError, one per failing path among those given
ValidationErrors(name, email, password) ==
    NameError(name) \cup EmailError(email) \cup PasswordError(password)

\* the salt of a new hash differs from every salt already in the collection
FreshSalt(coll) ==
    CHOOSE s \in 0..Cardinality(DOMAIN coll) :
        \A i \in DOMAIN coll :
            "salt" \in DOMAIN coll[i].password => coll[i].password.salt # s

\* user.isModified('password') after user.password = given: assigning the
\* value the document already holds marks nothing
IsModified(stored, given) == given # "" /\ stored # Raw(given)

\* the hook hashing whatever the password path holds, modified or not
PreSaveAlways(coll, doc, passwordModified) ==
    [doc EXCEPT !.password = BcryptHash(doc.password, FreshSalt(coll))]

\* pre('save'): hash the password when it was modified
PreSave(coll, doc, passwordModified) ==
    IF ~passwordModified THEN doc
    ELSE [doc EXCEPT !.password = BcryptHash(doc.password, FreshSalt(coll))]

\* the unique index on email
DuplicateEmail(coll, id, email) ==
    \E i \in DOMAIN coll : i # id /\ coll[i].email = email

\* User.findOne({email}, '-__v -createdAt -updatedAt')
FindOne(coll, email) ==
    IF \E i \in DOMAIN coll : coll[i].email = email
    THEN coll[CHOOSE i \in DOMAIN coll : coll[i].email = email]
    ELSE Null

Put(coll, doc) == [i \in DOMAIN coll \cup {doc._id} |-> IF i = doc._id THEN doc ELSE coll[i]]

\* a delete that leaves the collection as it is
RemoveNothing(coll, id) == coll

Remove(coll, id) == [i \in DOMAIN coll \ {id} |-> coll[i]]

----------------------------------------------------------------------------
(* usersController.authenticate *)

expireIn == 24 * 60 * 60

\* the document signed as it was read
DeletePasswordForgotten(doc) == doc

\* delete user._doc.password
DeletePassword(doc) == [f \in DOMAIN doc \ {"password"} |-> doc[f]]

UnknownEmailResponse(x) ==
    Send(x, 200, "render", "home/home", {"Identifiants errones, veuillez reessayer."})

WrongPasswordResponse(x) ==
    Send(x, 200, "render", "home/home", {"mot de passe errone, veuillez reessayer."})

Login(email, password, doc, t, token, x, thrown) ==
    [op |-> "authenticate", email |-> email, password |-> password, doc |-> doc,
     t |-> t, token |-> token, x |-> x, thrown |-> thrown]

\* the body of the try block up to the call of bcrypt.compare
Authenticate(email, password) ==
    /\ up
    /\ LET user == FindOne(users, email)
       IN IF ~dbUp
          THEN \* findOne rejects: the catch block of authenticate
               /\ last' = Login(email, password, Null, now, Undefined,
                                JsonError(NewExchange, 501, StoreError), FALSE)
               /\ UNCHANGED pending
          ELSE IF user # Null
          THEN /\ Cardinality(pending) < MaxPending
               /\ pending' = pending \cup
                      {[email |-> email, password |-> password, user |-> user]}
               /\ UNCHANGED last
          ELSE /\ last' = Login(email, password, Null, now, Undefined,
                                UnknownEmailResponse(NewExchange), FALSE)
               /\ UNCHANGED pending
    /\ UNCHANGED <<users, now, issued, created, up>>
    /\ UNCHANGED harbour

\* function(err, response) { ... }, called by bcryptjs on a later tick, when
\* the try block of authenticate has been left
CompareCallback(p) ==
    /\ up
    /\ p \in pending
    /\ LET r == BcryptCompare(p.password, p.user.password)
           token == JwtSign([user |-> DeletePassword(p.user)], SECRET_KEY, expireIn, now)
       IN IF r.response
          THEN /\ Cardinality(issued \cup {[jwt |-> token, at |-> now]}) <= MaxTokens
               /\ issued' = issued \cup {[jwt |-> token, at |-> now]}
               /\ last' = Login(p.email, p.password, p.user, now, [str |-> token],
                                Send(NewExchange, 200, "render", "dashboard/dashboard", {}),
                                FALSE)
               /\ pending' = pending \ {p}
               /\ UNCHANGED up
          ELSE IF r.err
          THEN \* throw new Error(err): nothing catches it, the process exits
               /\ up' = FALSE
               /\ pending' = {}
               /\ last' = Login(p.email, p.password, p.user, now, Undefined,
                                NewExchange, TRUE)
               /\ UNCHANGED issued
          ELSE /\ last' = Login(p.email, p.password, p.user, now, Undefined,
                                WrongPasswordResponse(NewExchange), FALSE)
               /\ pending' = pending \ {p}
               /\ UNCHANGED <<issued, up>>
    /\ UNCHANGED <<users, now, created>>
    /\ UNCHANGED harbour


----------------------------------------------------------------------------
(* Requests through a router *)

Request(op, route, cookie, t, g, x, id, body) ==
    [op |-> op, route |-> route, cookie |-> cookie, t |-> t, gate |-> g, x |-> x,
     id |-> id, body |-> body]

NoBody == [name |-> "", email |-> "", password |-> ""]

\* id and body are req.params.id and req.body as far as a handler has read them
\* (a request stopped at the gate has read neither)

\* a handler that renders its view; the handlers that read the catways and
\* reservations collections are entered and not followed further here
\* renderDashboard passes req.session.message to its view
RunHandler(x, handler, held) ==
    IF handler = "dashboardController.renderDashboard" /\ held.message # ""
    THEN Send(x, 200, "render", StaticViews[handler], {held.message})
    ELSE IF handler \in DOMAIN StaticViews
    THEN Send(x, 200, "render", StaticViews[handler], {})
    ELSE x

\* a visit that shows a message of the session is recorded with the request
\* that was answered before it; renderDashboard deletes req.session.message
Visit(route, cookie) ==
    /\ up
    /\ LET g == ThroughGate(route, cookie, now)
           renders == Reached(route, g)
                          /\ HandlerOf(route) = "dashboardController.renderDashboard"
           x == IF Reached(route, g)
                THEN RunHandler(Enter(route, g), HandlerOf(route), session)
                ELSE g
           visit == Request("visit", route, cookie, now, g, x, MalformedId, NoBody)
       IN /\ last' = IF renders /\ session.message # ""
                     THEN visit @@ [after |-> [op |-> last.op,
                                               x |-> IF "x" \in DOMAIN last
                                                     THEN last.x ELSE NewExchange]]
                     ELSE visit
          /\ session' = IF renders THEN [session EXCEPT !.message = ""] ELSE session
    /\ UNCHANGED <<users, now, issued, pending, created, up>>
    /\ UNCHANGED <<catways, reservations, reading, minted, dbUp, env>>

----------------------------------------------------------------------------
(* usersController: add, update, delete *)

\* exports.add
UserAdd(cookie, body) ==
    /\ up
    /\ LET route == UsersRoute("POST", "/")
           g == ThroughGate(route, cookie, now)
           h == Enter(route, g)
           errors == ValidationErrors(body.name, body.email, body.password)
           id == created + 1
           doc == PreSave(users, [_id |-> id, name |-> body.name, email |-> body.email,
                                  password |-> body.password], TRUE)
           done(x, given) == Request("users.add", route, cookie, now, g, x, given, body)
                                 @@ [before |-> users]
       IN IF ~Reached(route, g)
          THEN /\ last' = Request("users.add", route, cookie, now, g, g,
                                  MalformedId, NoBody) @@ [before |-> users]
               /\ UNCHANGED <<users, created>>
          ELSE IF errors # {}
          THEN /\ last' = done(Send(h, 400, "render", "error/error", errors),
                               MalformedId)
               /\ UNCHANGED <<users, created>>
          ELSE IF ~dbUp
          THEN /\ last' = done(InternalServerError(h, StoreError), MalformedId)
               /\ UNCHANGED <<users, created>>
          ELSE IF DuplicateEmail(users, id, body.email)
          THEN /\ last' = done(Send(h, 400, "render", "error/error",
                                    {"Cet email existe deja dans notre base de donnees"}),
                               MalformedId)
               /\ UNCHANGED <<users, created>>
          ELSE /\ created < MaxUsers
               /\ users' = Put(users, doc)
               /\ created' = id
               /\ last' = done(Send(h, 200, "render", "dashboard/dashboard",
                                    {"L'utilisateur a ete cree avec succes"}), id)
    /\ UNCHANGED <<now, issued, pending, up>>
    /\ UNCHANGED harbour

\* Object.keys(updateData).forEach: the fields given non-empty overwrite the document
Overwrite(doc, body) ==
    [doc EXCEPT !.name = IF body.name # "" THEN body.name ELSE @,
                !.email = IF body.email # "" THEN body.email ELSE @,
                !.password = IF body.password # "" /\ @ # Raw(body.password)
                             THEN body.password ELSE @]

\* exports.update
UserUpdate(cookie, id, body) ==
    /\ up
    /\ LET route == UsersRoute("PUT", "/:id")
           g == ThroughGate(route, cookie, now)
           h == Enter(route, g)
           done(x) == Request("users.update", route, cookie, now, g, x, id, body)
                          @@ [before |-> users]
           errors == (IF body.name # "" THEN NameError(body.name) ELSE {})
       IN IF ~Reached(route, g)
          THEN /\ last' = Request("users.update", route, cookie, now, g, g,
                                  MalformedId, NoBody) @@ [before |-> users]
               /\ UNCHANGED users
          ELSE IF id = MalformedId
          THEN last' = done(JsonError(h, 501, CastError)) /\ UNCHANGED users
          ELSE IF ~dbUp
          THEN last' = done(JsonError(h, 501, StoreError)) /\ UNCHANGED users
          ELSE IF id \notin DOMAIN users
          THEN /\ last' = done(Send(h, 404, "json", "", {"Utilisateur non trouve"}))
               /\ UNCHANGED users
          ELSE IF errors # {}
          THEN /\ last' = done(Send(h, 400, "render", "error/error", errors))
               /\ UNCHANGED users
          ELSE IF body.email # "" /\ DuplicateEmail(users, id, body.email)
          THEN /\ last' = done(JsonError(h, 501, DuplicateKeyError))
               /\ UNCHANGED users
          ELSE /\ users' = Put(users, PreSave(users, Overwrite(users[id], body),
                                              IsModified(users[id].password,
                                                         body.password)))
               /\ last' = done(Send(h, 200, "render", "users/edit_user",
                                    {"L'utilisateur a ete mis a jour avec succes"}))
    /\ UNCHANGED <<now, issued, pending, created, up>>
    /\ UNCHANGED harbour

\* exports.delete
UserDelete(cookie, id) ==
    /\ up
    /\ LET route == UsersRoute("DELETE", "/:id")
           g == ThroughGate(route, cookie, now)
           h == Enter(route, g)
           done(x) == Request("users.delete", route, cookie, now, g, x, id, NoBody)
                          @@ [before |-> users]
       IN IF ~Reached(route, g)
          THEN /\ last' = Request("users.delete", route, cookie, now, g, g,
                                  MalformedId, NoBody) @@ [before |-> users]
               /\ UNCHANGED users
          ELSE IF id = MalformedId
          THEN last' = done(Send(h, 400, "json", "", {"errorKind: ObjectId"}))
               /\ UNCHANGED users
          ELSE IF ~dbUp
          THEN last' = done(JsonError(h, 501, StoreError)) /\ UNCHANGED users
          ELSE IF id \notin DOMAIN users
          THEN \* deleteUser resolves to null and user.name throws a TypeError
               last' = done(JsonError(h, 501, TypeError)) /\ UNCHANGED users
          ELSE /\ users' = Remove(users, id)
               /\ last' = done(Send(h, 200, "render", "dashboard/dashboard",
                                    {"L'utilisateur a ete supprime avec succes"}))
    /\ UNCHANGED <<now, issued, pending, created, up>>
    /\ UNCHANGED harbour

----------------------------------------------------------------------------
(* usersController: getById, edit; userService.updateUser *)

\* exports.getById
UserGetByIdHandler(h, id) ==
    IF id = MalformedId THEN InternalServerError(h, CastError)
    ELSE IF ~dbUp THEN InternalServerError(h, StoreError)
    ELSE IF id \notin DOMAIN users
    THEN Send(h, 404, "json", "", {"Utilisateur non trouve"})
    ELSE Send(h, 200, "json", "", {})

UserGetById(cookie, id) ==
    /\ up
    /\ LET route == UsersRoute("GET", "/:id")
           g == ThroughGate(route, cookie, now)
       IN last' = IF ~Reached(route, g)
                  THEN Request("users.getById", route, cookie, now, g, g,
                               MalformedId, NoBody)
                  ELSE Request("users.getById", route, cookie, now, g,
                               UserGetByIdHandler(Enter(route, g), id), id, NoBody)
    /\ UNCHANGED <<users, now, issued, pending, created, up>>
    /\ UNCHANGED harbour

\* exports.edit
UserEditHandler(h, id) ==
    IF id = MalformedId
    THEN Send(h, 404, "render", "error/error", {"Entrez un identifiant valide"})
    ELSE IF ~dbUp THEN JsonError(h, 501, StoreError)
    ELSE IF id \notin DOMAIN users
    THEN Send(h, 404, "render", "error/error", {"Utilisateur non trouve"})
    ELSE Send(h, 200, "render", "users/edit_user", {})

UserEdit(cookie, id) ==
    /\ up
    /\ LET route == UsersRoute("GET", "/:id/edit")
           g == ThroughGate(route, cookie, now)
       IN last' = IF ~Reached(route, g)
                  THEN Request("users.edit", route, cookie, now, g, g,
                               MalformedId, NoBody)
                  ELSE Request("users.edit", route, cookie, now, g,
                               UserEditHandler(Enter(route, g), id), id, NoBody)
    /\ UNCHANGED <<users, now, issued, pending, created, up>>
    /\ UNCHANGED harbour

\* $set of the fields of updateData, with no pre('save') hook in between
UserSet(doc, updateData) ==
    [doc EXCEPT !.name = IF updateData.name # "" THEN updateData.name ELSE @,
                !.email = IF updateData.email # "" THEN updateData.email ELSE @,
                !.password = IF updateData.password # ""
                             THEN Raw(updateData.password) ELSE @]

\* what a call of a service function came to
Call(op, id, data, threw, returned) ==
    [op |-> op, id |-> id, body |-> data, threw |-> threw, returned |-> returned]

\* userService.updateUser(id, updateData): User.findByIdAndUpdate
UpdateUser(id, updateData) ==
    /\ up
    /\ LET done(threw, returned) ==
               Call("userService.updateUser", id, updateData, threw, returned)
           errors == IF updateData.name # "" THEN NameError(updateData.name) ELSE {}
       IN IF id = MalformedId
          THEN last' = done(CastError, Null) /\ UNCHANGED users
          ELSE IF errors # {}
          THEN last' = done("ValidationError", Null) /\ UNCHANGED users
          ELSE IF ~dbUp
          THEN last' = done(StoreError, Null) /\ UNCHANGED users
          ELSE IF id \notin DOMAIN users
          THEN last' = done("", Null) /\ UNCHANGED users
          ELSE IF updateData.email # "" /\ DuplicateEmail(users, id, updateData.email)
          THEN last' = done(DuplicateKeyError, Null) /\ UNCHANGED users
          ELSE /\ users' = Put(users, UserSet(users[id], updateData))
               /\ last' = done("", UserSet(users[id], updateData))
    /\ UNCHANGED <<now, issued, pending, created, up>>
    /\ UNCHANGED harbour

\* the MongoDB server going away and coming back
StoreDown ==
    /\ up
    /\ dbUp
    /\ dbUp' = FALSE
    /\ UNCHANGED <<users, now, issued, pending, created, last, up>>
    /\ UNCHANGED <<catways, reservations, reading, minted, env, session>>

StoreBack ==
    /\ up
    /\ ~dbUp
    /\ dbUp' = TRUE
    /\ UNCHANGED <<users, now, issued, pending, created, last, up>>
    /\ UNCHANGED <<catways, reservations, reading, minted, env, session>>

----------------------------------------------------------------------------
(* models/catway *)

CatwayIds == 1..MaxCatways
CatwayNumbers == {1, 2}

\* a catwayNumber that is not the text of a number, such as 'abc'
NotANumber == -1

\* req.body of the catway forms; 0 and "" are fields that are not in the body
CatwayBodies ==
    { [catwayNumber |-> 2, type |-> "short", catwayState |-> "bon etat",
       boatName |-> "Mistral"],
      [catwayNumber |-> 1, type |-> "long", catwayState |-> "bon etat",
       boatName |-> "Sirocco"],
      [catwayNumber |-> 2, type |-> "short", catwayState |-> "bon etat",
       boatName |-> "7"],
      [catwayNumber |-> 1, type |-> "", catwayState |-> "", boatName |-> ""],
      [catwayNumber |-> 0, type |-> "", catwayState |-> "", boatName |-> "Zephyr"],
      [catwayNumber |-> 0, type |-> "", catwayState |-> "ok", boatName |-> ""],
      [catwayNumber |-> NotANumber, type |-> "short", catwayState |-> "bon etat",
       boatName |-> "Mistral"] }

NoCatwayBody == [catwayNumber |-> 0, type |-> "", catwayState |-> "", boatName |-> ""]

\* a value that does not cast to Number is kept aside by new Catway(...) and
\* reported by validation as the error of its path
CatwayNumberError(v) ==
    IF v = 0 THEN {"Path catwayNumber is required."}
    ELSE IF v = NotANumber THEN {"Cast to Number failed at path catwayNumber"}
    ELSE {}

TypeErrorOf(v) ==
    IF v = "" THEN {"Path type is required."}
    ELSE IF v \notin {"long", "short"} THEN {"not a valid enum value for path type."}
    ELSE {}

CatwayStateError(v) ==
    IF v = "" THEN {"Path catwayState is required."}
    ELSE IF v = "ok" THEN {"L'etat du catway doit comporter au moins 3 caracteres"}
    ELSE {}

BoatNameError(v) ==
    IF v = "" THEN {"Path boatName is required."}
    ELSE IF v = "7" THEN {"Le nom du bateau doit comporter au moins 2 caracteres"}
    ELSE IF v = "77" THEN {"Le nom du bateau doit contenir au moins une lettre."}
    ELSE {}

\* validation of a new document: every path, and for each path the error of
\* the first validator that fails
CatwayErrors(body) ==
    CatwayNumberError(body.catwayNumber) \cup TypeErrorOf(body.type)
        \cup CatwayStateError(body.catwayState) \cup BoatNameError(body.boatName)

\* runValidators on findByIdAndUpdate: only the paths the update sets
CatwayUpdateErrors(body) ==
    (IF body.type # "" THEN TypeErrorOf(body.type) ELSE {})
        \cup (IF body.catwayState # "" THEN CatwayStateError(body.catwayState) ELSE {})
        \cup (IF body.boatName # "" THEN BoatNameError(body.boatName) ELSE {})

\* a collection without the unique index
DuplicateCatwayNumberUnchecked(coll, id, number) == FALSE

\* the unique index on catwayNumber
DuplicateCatwayNumber(coll, id, number) ==
    \E i \in DOMAIN coll : i # id /\ coll[i].catwayNumber = number

\* $set of the fields of the update
CatwaySet(doc, body) ==
    [doc EXCEPT !.catwayNumber = IF body.catwayNumber # 0 THEN body.catwayNumber ELSE @,
                !.type = IF body.type # "" THEN body.type ELSE @,
                !.catwayState = IF body.catwayState # "" THEN body.catwayState ELSE @,
                !.boatName = IF body.boatName # "" THEN body.boatName ELSE @]

----------------------------------------------------------------------------
(* catwaysController *)

CatwaysRoute(method, path) ==
    CHOOSE r \in CatwaysRoutes : r.method = method /\ r.path = path

\* the Referer header of a delete request; "" is no header at all
Referers == {"/dashboard", "/catways", ""}

\* a request with the collections as they were when it came in
Observed(request) ==
    request @@ [before |-> [catways |-> catways, reservations |-> reservations]]

\* a request the gate did not let through: the handler read nothing of it
Stopped(op, route, cookie, g) ==
    Observed(Request(op, route, cookie, now, g, g, MalformedId, NoBody))

\* exports.getAll
CatwayGetAllHandler(h) ==
    IF ~dbUp THEN InternalServerError(h, StoreError)
    ELSE IF DOMAIN catways = {}
    THEN Send(h, 404, "render", "catways/list", {"Aucun catway trouvee"})
    ELSE Send(h, 200, "render", "catways/list", {})

CatwayGetAll(cookie) ==
    /\ up
    /\ LET route == CatwaysRoute("GET", "/")
           g == ThroughGate(route, cookie, now)
       IN last' = IF ~Reached(route, g) THEN Stopped("catways.getAll", route, cookie, g)
                  ELSE Observed(Request("catways.getAll", route, cookie, now, g,
                                        CatwayGetAllHandler(Enter(route, g)),
                                        MalformedId, NoCatwayBody))
    /\ UNCHANGED <<users, now, issued, pending, created, up>>
    /\ UNCHANGED harbour

\* exports.getById
CatwayGetByIdHandler(h, id) ==
    IF id = MalformedId
    THEN Send(h, 404, "render", "error/error", {"Entrez un identifiant valide"})
    ELSE IF ~dbUp THEN InternalServerError(h, StoreError)
    ELSE IF id \notin DOMAIN catways
    THEN Send(h, 404, "render", "error/error", {"Catway non trouve"})
    ELSE Send(h, 200, "render", "catways/details", {})

CatwayGetById(cookie, id) ==
    /\ up
    /\ LET route == CatwaysRoute("GET", "/:id")
           g == ThroughGate(route, cookie, now)
       IN last' = IF ~Reached(route, g) THEN Stopped("catways.getById", route, cookie, g)
                  ELSE Observed(Request("catways.getById", route, cookie, now, g,
                                        CatwayGetByIdHandler(Enter(route, g), id),
                                        id, NoCatwayBody))
    /\ UNCHANGED <<users, now, issued, pending, created, up>>
    /\ UNCHANGED harbour

\* exports.edit
CatwayEditHandler(h, id) ==
    IF id = MalformedId
    THEN Send(h, 400, "render", "error/error", {"Entrez un identifiant valide"})
    ELSE IF ~dbUp THEN InternalServerError(h, StoreError)
    ELSE IF id \notin DOMAIN catways
    THEN Send(h, 404, "render", "error/error", {"Catway non trouve"})
    ELSE Send(h, 200, "render", "catways/edit", {})

CatwayEdit(cookie, id) ==
    /\ up
    /\ LET route == CatwaysRoute("GET", "/:id/edit")
           g == ThroughGate(route, cookie, now)
       IN last' = IF ~Reached(route, g) THEN Stopped("catways.edit", route, cookie, g)
                  ELSE Observed(Request("catways.edit", route, cookie, now, g,
                                        CatwayEditHandler(Enter(route, g), id),
                                        id, NoCatwayBody))
    /\ UNCHANGED <<users, now, issued, pending, created, up>>
    /\ UNCHANGED harbour

\* exports.add
CatwayAdd(cookie, body) ==
    /\ up
    /\ LET route == CatwaysRoute("POST", "/")
           g == ThroughGate(route, cookie, now)
           h == Enter(route, g)
           id == minted.catways + 1
           done(x) == Observed(Request("catways.add", route, cookie, now, g, x,
                                       MalformedId, body))
       IN IF ~Reached(route, g)
          THEN last' = Stopped("catways.add", route, cookie, g)
               /\ UNCHANGED <<catways, minted>>
          ELSE IF CatwayErrors(body) # {}
          THEN last' = done(Send(h, 400, "render", "error/error", CatwayErrors(body)))
               /\ UNCHANGED <<catways, minted>>
          ELSE IF ~dbUp
          THEN last' = done(InternalServerError(h, StoreError))
               /\ UNCHANGED <<catways, minted>>
          ELSE IF DuplicateCatwayNumber(catways, id, body.catwayNumber)
          THEN last' = done(Send(h, 400, "render", "error/error",
                                 {"Ce numero de catway existe deja"}))
               /\ UNCHANGED <<catways, minted>>
          ELSE /\ minted.catways < MaxCatways
               /\ catways' = Put(catways, [_id |-> id,
                                           catwayNumber |-> body.catwayNumber,
                                           type |-> body.type,
                                           catwayState |-> body.catwayState,
                                           boatName |-> body.boatName])
               /\ minted' = [minted EXCEPT !.catways = id]
               /\ last' = done(Send(h, 302, "redirect", "/catways",
                                    {"Catway a ete cree avec succes"}))
    /\ UNCHANGED <<users, now, issued, pending, created, up>>
    /\ UNCHANGED <<reservations, reading, dbUp, env, session>>

\* exports.update
CatwayUpdate(cookie, id, body) ==
    /\ up
    /\ LET route == CatwaysRoute("PUT", "/:id")
           g == ThroughGate(route, cookie, now)
           h == Enter(route, g)
           done(x) == Observed(Request("catways.update", route, cookie, now, g, x,
                                       id, body))
       IN IF ~Reached(route, g)
          THEN last' = Stopped("catways.update", route, cookie, g)
               /\ UNCHANGED catways
          ELSE IF id = MalformedId
          THEN last' = done(InternalServerError(h, CastError)) /\ UNCHANGED catways
          ELSE IF body.catwayNumber = NotANumber
          THEN \* the update is cast before its validators run: a CastError
               last' = done(InternalServerError(h, NumberCastError))
               /\ UNCHANGED catways
          ELSE IF CatwayUpdateErrors(body) # {}
          THEN last' = done(Send(h, 400, "render", "error/error",
                                 CatwayUpdateErrors(body)))
               /\ UNCHANGED catways
          ELSE IF ~dbUp
          THEN last' = done(InternalServerError(h, StoreError)) /\ UNCHANGED catways
          ELSE IF id \notin DOMAIN catways
          THEN last' = done(Send(h, 404, "json", "", {"Catway non trouve"}))
               /\ UNCHANGED catways
          ELSE IF body.catwayNumber # 0
                  /\ DuplicateCatwayNumber(catways, id, body.catwayNumber)
          THEN last' = done(InternalServerError(h, DuplicateKeyError))
               /\ UNCHANGED catways
          ELSE /\ catways' = Put(catways, CatwaySet(catways[id], body))
               /\ last' = done(Send(h, 200, "render", "catways/edit",
                                    {"Catway mis a jour avec succes"}))
    /\ UNCHANGED <<users, now, issued, pending, created, up>>
    /\ UNCHANGED <<reservations, reading, minted, dbUp, env, session>>

\* a redirect that keeps the status set by res.status(200)
DeleteResponseStatusKept(h, referer, target, message) ==
    IF referer = "" THEN InternalServerError(h, TypeError)
    ELSE IF referer = "/dashboard" THEN Send(h, 200, "json", "", {message})
    ELSE Send(h, 200, "redirect", target, {message})

\* the answer of a delete once the document is removed: without a Referer
\* header req.headers.referer.includes throws; res.status(200).json(...) when
\* the header contains 'dashboard'; otherwise res.status(200).redirect(...),
\* and res.redirect sets the status to 302
DeleteResponse(h, referer, target, message) ==
    IF referer = "" THEN InternalServerError(h, TypeError)
    ELSE IF referer = "/dashboard" THEN Send(h, 200, "json", "", {message})
    ELSE Send(h, 302, "redirect", target, {message})

\* exports.delete: the document is removed before the Referer header is read
CatwayDelete(cookie, id, referer) ==
    /\ up
    /\ LET route == CatwaysRoute("DELETE", "/:id")
           g == ThroughGate(route, cookie, now)
           h == Enter(route, g)
           done(x) == Observed(Request("catways.delete", route, cookie, now, g, x,
                                       id, NoCatwayBody)) @@ [referer |-> referer]
       IN IF ~Reached(route, g)
          THEN last' = Stopped("catways.delete", route, cookie, g)
                          @@ [referer |-> referer]
               /\ UNCHANGED <<catways, session>>
          ELSE IF id = MalformedId
          THEN last' = done(Send(h, 400, "json", "", {"errorKind: ObjectId"}))
               /\ UNCHANGED <<catways, session>>
          ELSE IF ~dbUp
          THEN last' = done(InternalServerError(h, StoreError))
               /\ UNCHANGED <<catways, session>>
          ELSE IF id \notin DOMAIN catways
          THEN \* deleteCatway resolves to null and catway.boatName throws
               last' = done(InternalServerError(h, TypeError))
               /\ UNCHANGED <<catways, session>>
          ELSE /\ catways' = Remove(catways, id)
               /\ session' = [session EXCEPT !.message =
                                                 "Catway a ete supprime avec succes"]
               /\ last' = done(DeleteResponse(h, referer, "/catways",
                                               "Catway a ete supprime avec succes"))
    /\ UNCHANGED <<users, now, issued, pending, created, up>>
    /\ UNCHANGED <<reservations, reading, minted, dbUp, env>>

----------------------------------------------------------------------------
(* models/reservation *)

ReservationIds == 1..MaxReservations
NoDate == -1
Dates == Instants \cup {NoDate}

\* req.body of the reservation form; boatName and catwayNumber are fields the
\* form does not have and a client may add
ReservationBodies ==
    [clientName : {"Durand", "Yo"}, checkIn : Dates, checkOut : Dates,
     boatName : {"", "Pirate"}, catwayNumber : {0, 9}]

NoReservationBody ==
    [clientName |-> "", checkIn |-> NoDate, checkOut |-> NoDate,
     boatName |-> "", catwayNumber |-> 0]

ClientNameError(v) ==
    IF v = "" THEN {"Le nom du client est obligatoire"}
    ELSE IF v = "Yo" THEN {"Le nom du client doit comporter au moins 3 caracteres"}
    ELSE {}

\* the validator accepting a check-in that is before the clock
CheckInErrorPastAllowed(v, t) ==
    IF v = NoDate THEN {"Date de check-in est obligatoire"} ELSE {}

\* validator: v >= new Date()
CheckInError(v, t) ==
    IF v = NoDate THEN {"Date de check-in est obligatoire"}
    ELSE IF ~(v >= t) THEN {"La date de check-in ne peut pas etre dans le passe."}
    ELSE {}

\* validator: v > this.checkIn (no date compares false with everything)
CheckOutError(v, checkIn) ==
    IF v = NoDate THEN {"Date de check-out est obligatoire"}
    ELSE IF checkIn = NoDate \/ ~(v > checkIn)
    THEN {"La date de check-out doit etre posterieure a la date de check-in."}
    ELSE {}

\* validation of a new reservation at instant t
ReservationErrors(data, t) ==
    ClientNameError(data.clientName) \cup CheckInError(data.checkIn, t)
        \cup CheckOutError(data.checkOut, data.checkIn)

\* reservationData taking the boat name from the request body
ReservationDataFromBody(catway, body) ==
    [catwayNumber |-> catway.catwayNumber, clientName |-> body.clientName,
     boatName |-> IF body.boatName # "" THEN body.boatName ELSE catway.boatName,
     checkIn |-> body.checkIn, checkOut |-> body.checkOut]

\* reservationData taking the catway number from the request body
ReservationDataNumberFromBody(catway, body) ==
    [catwayNumber |-> body.catwayNumber, clientName |-> body.clientName,
     boatName |-> catway.boatName, checkIn |-> body.checkIn,
     checkOut |-> body.checkOut]

\* const reservationData = { ... }
ReservationData(catway, body) ==
    [catwayNumber |-> catway.catwayNumber, clientName |-> body.clientName,
     boatName |-> catway.boatName, checkIn |-> body.checkIn,
     checkOut |-> body.checkOut]

----------------------------------------------------------------------------
(* reservationsController *)

ReservationsRoute(method, path) ==
    CHOOSE r \in ReservationsRoutes : r.method = method /\ r.path = path

\* a find without the filter: every reservation
GetAllReservationsUnfiltered(coll, catwayNumber) == {coll[i] : i \in DOMAIN coll}

\* getAllCatwayReservations: Reservation.find({ catwayNumber })
GetAllCatwayReservations(coll, catwayNumber) ==
    {coll[i] : i \in {j \in DOMAIN coll : coll[j].catwayNumber = catwayNumber}}

\* exports.getAllOfCatway
ReservationGetAllOfCatwayHandler(h, id) ==
    IF id = MalformedId THEN InternalServerError(h, CastError)
    ELSE IF ~dbUp THEN InternalServerError(h, StoreError)
    ELSE IF id \notin DOMAIN catways
    THEN Send(h, 404, "json", "", {"Catway non trouve"})
    ELSE IF GetAllCatwayReservations(reservations, catways[id].catwayNumber) = {}
    THEN Send(h, 404, "json", "", {"Aucune reservation trouvee"})
    ELSE Send(h, 200, "json", "", {})

ReservationGetAllOfCatway(cookie, id) ==
    /\ up
    /\ LET route == ReservationsRoute("GET", "/:id/reservations")
           g == ThroughGate(route, cookie, now)
           x == ReservationGetAllOfCatwayHandler(Enter(route, g), id)
       IN \* listed is what res.status(200).json(reservations) writes
          last' = IF ~Reached(route, g)
                  THEN Stopped("reservations.getAllOfCatway", route, cookie, g)
                           @@ [listed |-> {}]
                  ELSE Observed(Request("reservations.getAllOfCatway", route, cookie,
                                        now, g, x, id, NoReservationBody))
                           @@ [listed |->
                                   IF x.sent[1].status = 200
                                   THEN GetAllCatwayReservations(
                                            reservations, catways[id].catwayNumber)
                                   ELSE {}]
    /\ UNCHANGED <<users, now, issued, pending, created, up>>
    /\ UNCHANGED harbour

\* exports.getAll
ReservationGetAllHandler(h) ==
    IF ~dbUp THEN InternalServerError(h, StoreError)
    ELSE Send(h, 200, "render", "reservations/list", {})

ReservationGetAll(cookie) ==
    /\ up
    /\ LET route == ReservationsRoute("GET", "/reservations/list")
           g == ThroughGate(route, cookie, now)
       IN last' = IF ~Reached(route, g)
                  THEN Stopped("reservations.getAll", route, cookie, g)
                  ELSE Observed(Request("reservations.getAll", route, cookie, now, g,
                                        ReservationGetAllHandler(Enter(route, g)),
                                        MalformedId, NoReservationBody))
    /\ UNCHANGED <<users, now, issued, pending, created, up>>
    /\ UNCHANGED harbour

\* exports.getbyId: id is req.params.idReservation
ReservationGetByIdHandler(h, id) ==
    IF id = MalformedId
    THEN Send(h, 404, "render", "error/error", {"Entrez un identifiant valide"})
    ELSE IF ~dbUp THEN InternalServerError(h, StoreError)
    ELSE IF id \notin DOMAIN reservations
    THEN Send(h, 404, "render", "error/error", {"Reservation non trouvee"})
    ELSE Send(h, 200, "render", "reservations/details", {})

ReservationGetById(cookie, id) ==
    /\ up
    /\ LET route == ReservationsRoute("GET", "/:id/reservations/:idReservation")
           g == ThroughGate(route, cookie, now)
       IN last' = IF ~Reached(route, g)
                  THEN Stopped("reservations.getbyId", route, cookie, g)
                  ELSE Observed(Request("reservations.getbyId", route, cookie, now, g,
                                        ReservationGetByIdHandler(Enter(route, g), id),
                                        id, NoReservationBody))
    /\ UNCHANGED <<users, now, issued, pending, created, up>>
    /\ UNCHANGED harbour

\* exports.renderAddForm
ReservationRenderAddFormHandler(h) ==
    IF ~dbUp THEN InternalServerError(h, StoreError)
    ELSE IF DOMAIN catways = {}
    THEN Send(h, 404, "render", "catways/list", {"Aucun catway trouve"})
    ELSE Send(h, 200, "render", "reservations/add", {})

ReservationRenderAddForm(cookie) ==
    /\ up
    /\ LET route == ReservationsRoute("GET", "/reservation/add")
           g == ThroughGate(route, cookie, now)
       IN last' = IF ~Reached(route, g)
                  THEN Stopped("reservations.renderAddForm", route, cookie, g)
                  ELSE Observed(Request("reservations.renderAddForm", route, cookie,
                                        now, g,
                                        ReservationRenderAddFormHandler(Enter(route, g)),
                                        MalformedId, NoReservationBody))
    /\ UNCHANGED <<users, now, issued, pending, created, up>>
    /\ UNCHANGED harbour

\* a lookup that answers with a catway whatever the identifier
GetCatwayByIdAny(coll, id) ==
    IF DOMAIN coll = {} THEN Null ELSE coll[CHOOSE i \in DOMAIN coll : TRUE]

\* getCatwayById: Catway.findById(id)
GetCatwayById(coll, id) == IF id \in DOMAIN coll THEN coll[id] ELSE Null

\* exports.add, up to the answer of getCatwayById
ReservationAdd(cookie, id, body) ==
    /\ up
    /\ LET route == ReservationsRoute("POST", "/:id/reservations")
           g == ThroughGate(route, cookie, now)
           h == Enter(route, g)
           done(x) == Observed(Request("reservations.add", route, cookie, now, g, x,
                                       id, body))
                          @@ [catway |-> Null, stored |-> MalformedId]
       IN IF ~Reached(route, g)
          THEN last' = Stopped("reservations.add", route, cookie, g)
                          @@ [catway |-> Null, stored |-> MalformedId]
               /\ UNCHANGED reading
          ELSE IF id = MalformedId
          THEN last' = done(InternalServerError(h, CastError)) /\ UNCHANGED reading
          ELSE IF ~dbUp
          THEN last' = done(InternalServerError(h, StoreError)) /\ UNCHANGED reading
          ELSE IF GetCatwayById(catways, id) = Null
          THEN last' = done(Send(h, 404, "json", "", {"Catway non trouve"}))
               /\ UNCHANGED reading
          ELSE /\ Cardinality(reading) < MaxReading
               /\ reading' = reading \cup
                      {[route |-> route, cookie |-> cookie, t |-> now, gate |-> g,
                        x |-> h, id |-> id, body |-> body,
                        catway |-> GetCatwayById(catways, id)]}
               /\ UNCHANGED last
    /\ UNCHANGED <<users, now, issued, pending, created, up>>
    /\ UNCHANGED <<catways, reservations, minted, dbUp, env, session>>

\* exports.add, from reservationData on: validation, save and the response
ReservationCreate(r) ==
    /\ up
    /\ r \in reading
    /\ LET data == ReservationData(r.catway, r.body)
           errors == ReservationErrors(data, now)
           id == minted.reservations + 1
           done(x, stored) ==
               Observed(Request("reservations.add", r.route, r.cookie, now, r.gate, x,
                                r.id, r.body))
                   @@ [catway |-> r.catway, stored |-> stored]
       IN IF errors # {}
          THEN last' = done(Send(r.x, 400, "render", "error/error", errors), MalformedId)
               /\ UNCHANGED <<reservations, minted>>
          ELSE IF ~dbUp
          THEN last' = done(InternalServerError(r.x, StoreError), MalformedId)
               /\ UNCHANGED <<reservations, minted>>
          ELSE /\ minted.reservations < MaxReservations
               /\ reservations' = Put(reservations, [_id |-> id] @@ data)
               /\ minted' = [minted EXCEPT !.reservations = id]
               /\ last' = done(Send(r.x, 200, "render", "dashboard/dashboard",
                                    {"La reservation a ete creee avec succes"}), id)
    /\ reading' = reading \ {r}
    /\ UNCHANGED <<users, now, issued, pending, created, up>>
    /\ UNCHANGED <<catways, dbUp, env, session>>

\* exports.delete: id is req.params.idReservation; the document is removed
\* before the Referer header is read
ReservationDelete(cookie, id, referer) ==
    /\ up
    /\ LET route == ReservationsRoute("DELETE", "/:id/reservations/:idReservation")
           g == ThroughGate(route, cookie, now)
           h == Enter(route, g)
           done(x) == Observed(Request("reservations.delete", route, cookie, now, g, x,
                                       id, NoReservationBody)) @@ [referer |-> referer]
       IN IF ~Reached(route, g)
          THEN last' = Stopped("reservations.delete", route, cookie, g)
                          @@ [referer |-> referer]
               /\ UNCHANGED <<reservations, session>>
          ELSE IF id = MalformedId
          THEN last' = done(Send(h, 400, "json", "", {"errorKind: ObjectId"}))
               /\ UNCHANGED <<reservations, session>>
          ELSE IF ~dbUp
          THEN last' = done(InternalServerError(h, StoreError))
               /\ UNCHANGED <<reservations, session>>
          ELSE IF id \notin DOMAIN reservations
          THEN \* deleteReservation resolves to null and reservation.boatName throws
               last' = done(InternalServerError(h, TypeError))
               /\ UNCHANGED <<reservations, session>>
          ELSE /\ reservations' = Remove(reservations, id)
               /\ session' = [session EXCEPT !.message =
                                                 "La reservation a ete supprimee avec succes"]
               /\ last' = done(DeleteResponse(h, referer, "/dashboard",
                                               "La reservation a ete supprimee avec succes"))
    /\ UNCHANGED <<users, now, issued, pending, created, up>>
    /\ UNCHANGED <<catways, reading, minted, dbUp, env>>

----------------------------------------------------------------------------
(* The clock *)

Tick ==
    /\ up
    /\ now' \in {t \in Instants : t > now}
    /\ UNCHANGED <<users, issued, pending, created, last, up>>
    /\ UNCHANGED harbour

----------------------------------------------------------------------------
(* The server after start: the test user of the README is in the store *)

Init ==
    /\ users = [i \in {1} |-> [_id |-> 1, name |-> "Ann", email |-> "a@x.fr",
                               password |-> BcryptHash("secret1", 0)]]
    /\ now = 0
    /\ issued = {}
    /\ pending = {}
    /\ created = 1
    /\ last = [op |-> "none"]
    /\ up = TRUE
    /\ catways = [i \in {1} |-> [_id |-> 1, catwayNumber |-> 1, type |-> "long",
                                 catwayState |-> "bon etat", boatName |-> "Ondine"]]
    /\ reservations = <<>>
    /\ reading = {}
    /\ minted = [catways |-> 1, reservations |-> 0]
    /\ dbUp = TRUE
    /\ env = SECRET_KEY
    /\ session = [message |-> ""]

Next ==
    \/ \E e \in Emails, p \in Passwords \cup {MissingPassword} : Authenticate(e, p)
    \/ \E p \in pending : CompareCallback(p)
    \/ \E r \in Routes, c \in Cookies : Visit(r, c)
    \/ \E c \in Cookies, b \in UserBodies : UserAdd(c, b)
    \/ \E c \in Cookies, id \in Ids, b \in UserBodies : UserUpdate(c, id, b)
    \/ \E c \in Cookies, id \in Ids : UserDelete(c, id)
    \/ \E c \in Cookies, id \in Ids : UserGetById(c, id)
    \/ \E c \in Cookies, id \in Ids : UserEdit(c, id)
    \/ \E id \in Ids, b \in UserBodies : UpdateUser(id, b)
    \/ \E c \in Cookies : CatwayGetAll(c)
    \/ \E c \in Cookies, id \in CatwayIds \cup {MalformedId} : CatwayGetById(c, id)
    \/ \E c \in Cookies, id \in CatwayIds \cup {MalformedId} : CatwayEdit(c, id)
    \/ \E c \in Cookies, b \in CatwayBodies : CatwayAdd(c, b)
    \/ \E c \in Cookies, id \in CatwayIds \cup {MalformedId}, b \in CatwayBodies :
          CatwayUpdate(c, id, b)
    \/ \E c \in Cookies, id \in CatwayIds \cup {MalformedId}, r \in Referers :
          CatwayDelete(c, id, r)
    \/ \E c \in Cookies, id \in CatwayIds \cup {MalformedId} :
          ReservationGetAllOfCatway(c, id)
    \/ \E c \in Cookies : ReservationGetAll(c)
    \/ \E c \in Cookies, id \in ReservationIds \cup {MalformedId} :
          ReservationGetById(c, id)
    \/ \E c \in Cookies : ReservationRenderAddForm(c)
    \/ \E c \in Cookies, id \in CatwayIds \cup {MalformedId}, b \in ReservationBodies :
          ReservationAdd(c, id, b)
    \/ \E r \in reading : ReservationCreate(r)
    \/ \E c \in Cookies, id \in ReservationIds \cup {MalformedId}, r \in Referers :
          ReservationDelete(c, id, r)
    \/ StoreDown
    \/ StoreBack
    \/ Tick

Spec == Init /\ [][Next]_vars

----------------------------------------------------------------------------
(* Spec restricted to the inputs of one part of the program *)

Dashboard == {r \in DashboardRoutes : r.path = "/"}
FullBodies == {b \in UserBodies : b.name # "" /\ b.email # "" /\ b.password # ""}
OneFieldBodies == {b \in UserBodies \ FullBodies : b.name # "Al"}

\* the gate and the routers: every route with and without a token, every
\* cookie at GET /dashboard, the clock running, the store as it starts
GateNext ==
    \/ \E e \in {"a@x.fr", "nobody@x.fr"}, p \in Passwords : Authenticate(e, p)
    \/ \E p \in pending : CompareCallback(p)
    \/ \E r \in Routes, c \in {Undefined} \cup {[str |-> j] : j \in Jwts} : Visit(r, c)
    \/ \E r \in Dashboard, c \in Cookies : Visit(r, c)
    \/ Tick

SpecGate == Init /\ [][GateNext]_vars

\* login and the user operations: the store changing under tokens already
\* issued and under logins in flight, the clock standing still
UsersNext ==
    \/ \E e \in {"a@x.fr", "b@x.fr"}, p \in Passwords \cup {MissingPassword} :
          Authenticate(e, p)
    \/ \E p \in pending : CompareCallback(p)
    \/ \E r \in Dashboard, c \in PlainCookies : Visit(r, c)
    \/ \E c \in PlainCookies, b \in FullBodies : UserAdd(c, b)
    \/ \E c \in PlainCookies, id \in Ids, b \in OneFieldBodies : UserUpdate(c, id, b)
    \/ \E c \in PlainCookies, id \in Ids : UserDelete(c, id)

SpecUsers == Init /\ [][UsersNext]_vars

\* the user documents under every operation that writes them, the service's
\* updateUser included
AccountBodies == {b \in UserBodies : b.name # "Al"}

AccountsNext ==
    \/ \E p \in Passwords : Authenticate("a@x.fr", p)
    \/ \E p \in pending : CompareCallback(p)
    \/ \E c \in PlainCookies, b \in FullBodies : UserAdd(c, b)
    \/ \E c \in PlainCookies, id \in Ids, b \in AccountBodies : UserUpdate(c, id, b)
    \/ \E c \in PlainCookies, id \in Ids : UserDelete(c, id)
    \/ \E id \in Ids, b \in OneFieldBodies : UpdateUser(id, b)

SpecAccounts == Init /\ [][AccountsNext]_vars

\* the catways collection under every operation of its controller, for a
\* client that logs in and one that does not
CatwayParams == CatwayIds \cup {MalformedId}

CatwaysNext ==
    \/ Authenticate("a@x.fr", "secret1")
    \/ \E p \in pending : CompareCallback(p)
    \/ \E c \in PlainCookies : CatwayGetAll(c)
    \/ \E c \in PlainCookies, id \in CatwayParams : CatwayGetById(c, id)
    \/ \E c \in PlainCookies, id \in CatwayParams : CatwayEdit(c, id)
    \/ \E c \in PlainCookies, b \in CatwayBodies : CatwayAdd(c, b)
    \/ \E c \in PlainCookies, id \in CatwayParams, b \in CatwayBodies :
          CatwayUpdate(c, id, b)
    \/ \E c \in PlainCookies, id \in CatwayParams, r \in Referers :
          CatwayDelete(c, id, r)

SpecCatways == Init /\ [][CatwaysNext]_vars

\* the reservations collection under the operations that write it, with
\* the clock running and the catway renamed while an add is between its read
\* and its save
FormBodies ==
    {b \in ReservationBodies :
        /\ (b.boatName = "") = (b.catwayNumber = 0)
        /\ b.checkIn \in {999, 86400000}
        /\ b.checkOut \in {999, 86400000, NoDate}
        /\ b.boatName # "" => (b.checkIn = 999 /\ b.checkOut = 86400000)
        /\ (b.clientName = "Yo" \/ b.checkOut = NoDate)
               => (b.clientName = "Yo" /\ b.checkOut = NoDate /\ b.checkIn = 999)}

ReservationParams == ReservationIds \cup {MalformedId}

ReservationsNext ==
    \/ Authenticate("a@x.fr", "secret1")
    \/ \E p \in pending : CompareCallback(p)
    \/ \E c \in PlainCookies, id \in CatwayParams, b \in FormBodies :
          ReservationAdd(c, id, b)
    \/ \E r \in reading : ReservationCreate(r)
    \/ \E c \in PlainCookies, id \in ReservationParams, r \in Referers :
          ReservationDelete(c, id, r)
    \/ \E c \in PlainCookies, b \in {d \in CatwayBodies : d.boatName = "Zephyr"} :
          CatwayUpdate(c, 1, b)
    \/ Tick /\ now' \in {999, 86400000}

SpecReservations == Init /\ [][ReservationsNext]_vars

\* the operations addressed by an identifier, in the three families, for a
\* client that is logged in: identifiers that are malformed, that match
\* nothing and that match a record, values that are already taken, and the
\* store going away
TokenCookies == {[str |-> j] : j \in Jwts}
Taken == {b \in CatwayBodies : b.catwayNumber = 1 /\ b.boatName \in {"", "Sirocco"}}
Mistral == {b \in CatwayBodies : b.boatName = "Mistral"}
TakenEmail == {b \in OneFieldBodies : b.email # ""}

ErrorsNext ==
    \/ Authenticate("a@x.fr", "secret1")
    \/ \E p \in pending : CompareCallback(p)
    \/ \E c \in TokenCookies, b \in FullBodies : UserAdd(c, b)
    \/ \E c \in TokenCookies, id \in Ids, b \in TakenEmail : UserUpdate(c, id, b)
    \/ \E c \in TokenCookies, id \in Ids \ {1} : UserDelete(c, id)
    \/ \E c \in TokenCookies, id \in Ids : UserGetById(c, id)
    \/ \E c \in TokenCookies, id \in Ids : UserEdit(c, id)
    \/ \E c \in TokenCookies : CatwayGetAll(c)
    \/ \E c \in TokenCookies, id \in CatwayParams : CatwayGetById(c, id)
    \/ \E c \in TokenCookies, id \in CatwayParams : CatwayEdit(c, id)
    \/ \E c \in TokenCookies, b \in Mistral \cup Taken : CatwayAdd(c, b)
    \/ \E c \in TokenCookies, id \in CatwayParams, b \in Taken : CatwayUpdate(c, id, b)
    \/ \E c \in TokenCookies, id \in CatwayParams \ {1} :
          CatwayDelete(c, id, "/dashboard")
    \/ \E c \in TokenCookies, id \in CatwayParams : ReservationGetAllOfCatway(c, id)
    \/ \E c \in TokenCookies : ReservationGetAll(c)
    \/ \E c \in TokenCookies, id \in ReservationParams : ReservationGetById(c, id)
    \/ \E c \in TokenCookies, id \in ReservationParams :
          ReservationDelete(c, id, "/dashboard")
    \/ StoreDown
    \/ StoreBack

SpecErrors == Init /\ [][ErrorsNext]_vars


\* the creates and the updates of the three families, with inputs their
\* schemas accept and inputs they refuse, for a client that is logged in
ValidationNext ==
    \/ Authenticate("a@x.fr", "secret1")
    \/ \E p \in pending : CompareCallback(p)
    \/ \E c \in TokenCookies, b \in UserBodies : UserAdd(c, b)
    \/ \E c \in TokenCookies, b \in {d \in UserBodies : d.name # "" /\ d.email = ""} :
          UserUpdate(c, 1, b)
    \/ \E c \in TokenCookies, b \in CatwayBodies : CatwayAdd(c, b)
    \/ \E c \in TokenCookies,
          b \in Taken \cup {d \in CatwayBodies : d.catwayNumber = NotANumber
                                                  \/ CatwayUpdateErrors(d) # {}} :
          CatwayUpdate(c, 1, b)
    \/ \E c \in TokenCookies, b \in FormBodies : ReservationAdd(c, 1, b)
    \/ \E r \in reading : ReservationCreate(r)
    \/ Tick /\ now' = 86400000

SpecValidation == Init /\ [][ValidationNext]_vars


\* the catways and the reservations side by side, for a client that is logged
\* in: catways created, renumbered, renamed and deleted while reservations are
\* listed, added (also between an add's read and its save) and deleted
HarbourNext ==
    \/ Authenticate("a@x.fr", "secret1")
    \/ \E p \in pending : CompareCallback(p)
    \/ \E c \in TokenCookies, b \in Mistral : CatwayAdd(c, b)
    \/ \E c \in TokenCookies,
          b \in Mistral \cup {d \in CatwayBodies : d.boatName = "Zephyr"} :
          CatwayUpdate(c, 1, b)
    \/ \E c \in TokenCookies, id \in CatwayIds, r \in Referers : CatwayDelete(c, id, r)
    \/ \E c \in TokenCookies, id \in CatwayIds : ReservationGetAllOfCatway(c, id)
    \/ \E c \in TokenCookies, id \in CatwayIds,
          b \in {d \in FormBodies : d.clientName = "Durand" /\ d.boatName = ""
                                       /\ d.checkIn = 999} :
          ReservationAdd(c, id, b)
    \/ \E r \in reading : ReservationCreate(r)
    \/ \E c \in TokenCookies, id \in ReservationParams, r \in Referers :
          ReservationDelete(c, id, r)

SpecHarbour == Init /\ [][HarbourNext]_vars


----------------------------------------------------------------------------
(* The process from the moment node is started *)

\* the store as in Init; the process has not run app.js yet, and the
\* environment may or may not provide SECRET_KEY
InitStartup ==
    /\ users = [i \in {1} |-> [_id |-> 1, name |-> "Ann", email |-> "a@x.fr",
                               password |-> BcryptHash("secret1", 0)]]
    /\ now = 0
    /\ issued = {}
    /\ pending = {}
    /\ created = 1
    /\ last = [op |-> "none"]
    /\ up = FALSE
    /\ catways = [i \in {1} |-> [_id |-> 1, catwayNumber |-> 1, type |-> "long",
                                 catwayState |-> "bon etat", boatName |-> "Ondine"]]
    /\ reservations = <<>>
    /\ reading = {}
    /\ minted = [catways |-> 1, reservations |-> 0]
    /\ dbUp = TRUE
    /\ env \in {SECRET_KEY, ""}
    /\ session = [message |-> ""]

\* the module code of app.js: session({ secret: process.env.SECRET_KEY, ... })
\* builds the middleware whatever the secret is, nothing reads the secret
\* before the first request, and the application is exported and listens
Startup ==
    /\ ~up
    /\ last.op = "none"
    /\ up' = TRUE
    /\ last' = [op |-> "startup", secret |-> env]
    /\ UNCHANGED <<users, now, issued, pending, created>>
    /\ UNCHANGED harbour

\* a request to a process started without SECRET_KEY: the session middleware
\* is mounted before the routers and calls next(err) with 'secret option
\* required for sessions'; no router is reached and Express answers 500
SessionRefuses(route, cookie) ==
    /\ up
    /\ env = ""
    /\ last' = [op |-> "refused", route |-> route, cookie |-> cookie, t |-> now,
                x |-> Send(NewExchange, 500, "send", "",
                           {"Error: secret option required for sessions"})]
    /\ UNCHANGED <<users, now, issued, pending, created, up>>
    /\ UNCHANGED harbour

\* with the secret, the login and the routes behind the session middleware
StartupNext ==
    \/ Startup
    \/ \E r \in Routes, c \in Cookies : SessionRefuses(r, c)
    \/ env # "" /\ \E e \in {"a@x.fr", "nobody@x.fr"}, p \in Passwords : Authenticate(e, p)
    \/ env # "" /\ \E p \in pending : CompareCallback(p)
    \/ env # "" /\ \E r \in Dashboard, c \in Cookies : Visit(r, c)
    \/ Tick

SpecStartup == InitStartup /\ [][StartupNext]_vars

\* the session of a client that is logged in: catways created and deleted,
\* from the dashboard, from the list and without a Referer header, and the
\* dashboard opened in between
SessionNext ==
    \/ Authenticate("a@x.fr", "secret1")
    \/ \E p \in pending : CompareCallback(p)
    \/ \E c \in TokenCookies, b \in Mistral : CatwayAdd(c, b)
    \/ \E c \in TokenCookies, id \in CatwayIds, r \in Referers : CatwayDelete(c, id, r)
    \/ \E r \in Dashboard, c \in TokenCookies : Visit(r, c)

SpecSession == Init /\ [][SessionNext]_vars

----------------------------------------------------------------------------
(* Properties *)

Range(s) == {s[i] : i \in DOMAIN s}

\* last is a request that came in through a route with the gate in front
Gated ==
    /\ last.op \in {"visit", "users.add", "users.update", "users.delete"}
    /\ "checkJWT" \in Range(last.route.chain)

\* the token the gate verifies, and whether it is one the server signed and
\* that has not expired at instant t
TokenOf(cookie) == StripBearer(cookie)
Verifies(token, t) ==
    \E k \in issued : token = [str |-> k.jwt] /\ (t \div 1000) < k.jwt[2].exp

Statuses(x) == [i \in 1..Len(x.sent) |-> x.sent[i].status]
Outcome(x) == [statuses |-> Statuses(x), claims |-> x.next]

\* C1: a request through checkJWT whose authToken cookie is absent or empty,
\* or whose token fails verification (forged, malformed, expired), is answered
\* 401 by the gate and its handler is never invoked
C1_Rejected ==
    (Gated /\ (~Truthy(last.cookie) \/ ~Verifies(TokenOf(last.cookie), last.t)))
    => /\ Statuses(last.gate) = <<401>>
       /\ last.gate.next = <<>>
       /\ last.x = last.gate
       /\ HandlerOf(last.route) \notin Range(last.x.invoked)

C1_Witness ==
    /\ Gated
    /\ \E k \in issued : last.cookie = [str |-> k.jwt] /\ last.t \div 1000 >= k.jwt[2].exp
    /\ Statuses(last.x) = <<401>>

\* C2: a request whose token verifies has its handler invoked exactly once,
\* with req.user already set to the user claim of the token, and the gate
\* sends no response of its own
C2_Authenticated ==
    (Gated /\ Truthy(last.cookie) /\ Verifies(TokenOf(last.cookie), last.t))
    => /\ last.gate.next = <<TokenOf(last.cookie).str[2].user>>
       /\ last.gate.sent = <<>>
       /\ last.x.invoked = <<"checkJWT", HandlerOf(last.route)>>
       /\ last.x.user = TokenOf(last.cookie).str[2].user

C2_Witness ==
    /\ Gated
    /\ Truthy(last.cookie)
    /\ Len(last.cookie.str) > 3
    /\ Verifies(TokenOf(last.cookie), last.t)
    /\ last.gate.next = <<[_id |-> 1, name |-> "Ann", email |-> "a@x.fr"]>>

\* last is a gated request whose cookie is exactly the issued token k
PresentedAt(k) == Gated /\ last.cookie = [str |-> k.jwt]
Accepted(k) == last.gate.next = <<k.jwt[2].user>> /\ last.gate.sent = <<>>
Refused == Statuses(last.gate) = <<401>> /\ last.gate.next = <<>>

\* C3 as stated: a token issued at instant t is accepted at every instant
\* before t + 24 h and refused with 401 at every instant after t + 24 h
C3_Original ==
    \A k \in issued :
        PresentedAt(k) =>
            /\ last.t < k.at + expireIn * 1000 => Accepted(k)
            /\ last.t > k.at + expireIn * 1000 => Refused

\* C3 amended: the lifetime is counted in whole seconds of the clock: a token
\* issued at instant t is accepted while the clock's second is less than the
\* second of t plus 86400, and refused with 401 from that second on (so at
\* every instant from t + 24 h on, and up to 999 ms before it)
C3_Lifetime ==
    \A k \in issued :
        PresentedAt(k) =>
            /\ (last.t \div 1000) < (k.at \div 1000) + expireIn => Accepted(k)
            /\ (last.t \div 1000) >= (k.at \div 1000) + expireIn => Refused
            /\ last.t >= k.at + expireIn * 1000 => Refused
            /\ last.t + 1000 <= k.at + expireIn * 1000 => Accepted(k)

C3_Witness ==
    \E k \in issued :
        /\ PresentedAt(k)
        /\ last.t < k.at + expireIn * 1000
        /\ last.t > k.at
        /\ Refused

\* C4: authenticate answers an unknown email and a known email with a wrong
\* password with the same response
C4_Indistinguishable ==
    (/\ last.op = "authenticate"
     /\ last.doc # Null
     /\ ~last.thrown
     /\ last.token = Undefined)
    => last.x.sent = UnknownEmailResponse(NewExchange).sent

Matches(password, stored) == "bcrypt" \in DOMAIN stored /\ stored.bcrypt = password

\* C5: authenticate issues a token exactly when the email is that of a stored
\* user and the password matches it; the user claim of the token is that
\* user's _id, name and email, without the password
C5_Claim ==
    last.op = "authenticate" =>
        /\ last.token # Undefined
             <=> (last.doc # Null /\ Matches(last.password, last.doc.password))
        /\ last.token # Undefined =>
             /\ JwtVerify(last.token.str, SECRET_KEY, last.t).err = ""
             /\ last.token.str[2].user =
                    [_id |-> last.doc._id, name |-> last.doc.name,
                     email |-> last.doc.email]
             /\ "password" \notin DOMAIN last.token.str[2].user

C5_Witness ==
    /\ last.op = "authenticate"
    /\ last.token # Undefined
    /\ last.password = "secret1"
    /\ last.doc.password = BcryptHash("secret1", 0)
    /\ last.token.str[2].user = [_id |-> 1, name |-> "Ann", email |-> "a@x.fr"]

\* C6: when bcrypt.compare fails with an error, authenticate answers with an
\* error status, not with the home view and not with nothing
C6_CompareError ==
    (/\ last.op = "authenticate"
     /\ last.doc # Null
     /\ BcryptCompare(last.password, last.doc.password).err)
    => /\ Len(last.x.sent) = 1
       /\ last.x.sent[1].status >= 500
       /\ last.x.sent[1].view # "home/home"

\* last is a request whose handler is followed to its end
Followed ==
    \/ last.op \in {"authenticate", "users.add", "users.update", "users.delete"}
    \/ /\ last.op = "visit"
       /\ (Reached(last.route, last.gate) => HandlerOf(last.route) \in DOMAIN StaticViews)

\* C7: every request gets exactly one response, and no error of a request
\* ends the process
C7_OneResponse ==
    /\ up
    /\ Followed => Len(last.x.sent) = 1

\* T such that last came with the cookie p \o T
Rest(p) == [str |-> SubSeq(last.cookie.str, Len(p) + 1, Len(last.cookie.str))]
Prefixed(p) ==
    /\ Gated
    /\ Truthy(last.cookie)
    /\ StartsWith(last.cookie.str, Str(p).str)

\* C8 as stated: for every token string T, the cookie 'Bearer ' (in any
\* case) followed by T has the same gate outcome as the cookie T
C8_Original ==
    \A p \in BearerPrefixes :
        Prefixed(p) =>
            Outcome(last.gate) = Outcome(CheckJWT(NewExchange, Rest(p), last.t))

\* C8 amended: for every token string T that does not itself begin with
\* 'bearer' (in any case), the cookie 'Bearer ' (in any case) followed by T
\* has the same gate outcome as the cookie T
C8_Prefix ==
    \A p \in BearerPrefixes :
        (Prefixed(p) /\ ~StartsWith(ToLowerCase(Rest(p).str), bearer)) =>
            Outcome(last.gate) = Outcome(CheckJWT(NewExchange, Rest(p), last.t))

C8_Witness ==
    /\ Prefixed(<<"B", "E", "A", "R", "E", "R", " ">>)
    /\ Verifies(Rest(<<"B", "E", "A", "R", "E", "R", " ">>), last.t)
    /\ last.gate.next = <<[_id |-> 1, name |-> "Ann", email |-> "a@x.fr"]>>

\* C9: every route of the dashboard, catways and reservations routers has
\* checkJWT in front of its handler, so a handler of these routers runs only
\* for a request that passed the gate; of the four routers only the home
\* route is registered without it
C9_Routes ==
    /\ \A r \in Routes :
          IF r.router = "home" THEN "checkJWT" \notin Range(r.chain)
          ELSE Len(r.chain) = 2 /\ r.chain[1] = "checkJWT"
    /\ (/\ last.op = "visit"
        /\ last.route.router \in {"dashboard", "catways", "reservations"}
        /\ HandlerOf(last.route) \in Range(last.x.invoked))
       => /\ last.x.invoked = <<"checkJWT", HandlerOf(last.route)>>
          /\ Len(last.gate.next) = 1
          /\ Verifies(TokenOf(last.cookie), last.t)

C9_Witness ==
    /\ last.op = "visit"
    /\ last.route.router = "reservations"
    /\ last.route.path = "/reservations/list"
    /\ last.x.invoked = <<"checkJWT", "reservationsController.getAll">>

\* what the gate does, in the current state, with the token k as the cookie
GateOutcome(k) ==
    LET x == CheckJWT(NewExchange, [str |-> k.jwt], now)
    IN [statuses |-> Statuses(x), claims |-> x.next]

\* what the token k, the secret and the instant t alone determine: the user
\* claim of k attached and no response while the clock's second is before
\* k's exp, a single 401 from then on
Determined(k, t) ==
    IF JwtVerify(k.jwt, SECRET_KEY, t).err = ""
    THEN [statuses |-> <<>>, claims |-> <<k.jwt[2].user>>]
    ELSE [statuses |-> <<401>>, claims |-> <<>>]

\* C10: in every state, whatever operations have been carried out on the
\* store (the token's user deleted, its password or fields changed), the
\* gate's outcome and the claim it attaches for a token already issued are
\* those that the token, the secret and the current time determine
C10_Stateless ==
    /\ \A k \in issued : GateOutcome(k) = Determined(k, now)
    /\ \A k \in issued :
          (Gated /\ last.cookie = [str |-> k.jwt])
              => Outcome(last.gate) = Determined(k, last.t)

C10_Witness ==
    /\ Gated
    /\ \E k \in issued :
          /\ last.cookie = [str |-> k.jwt]
          /\ k.jwt[2].user._id \notin DOMAIN users
          /\ last.gate.next = <<k.jwt[2].user>>
          /\ last.op = "visit"

\* C11: after any sequence of addUser, the controller's update,
\* userService.updateUser and deleteUser, the password stored for every user
\* is a hash and never the raw password that was submitted
C11_Hashed ==
    \A i \in DOMAIN users :
        /\ "bcrypt" \in DOMAIN users[i].password
        /\ users[i].password \notin {Raw(p) : p \in Passwords}

\* last is an edit that reached the handler; Was is the document it addressed
\* as it was when the request came in, Is the document as it is now
Edit == last.op = "users.update" /\ Reached(last.route, last.gate)
Edited == Edit /\ Statuses(last.x) = <<200>>
Was == last.before[last.id]
Is == users[last.id]

\* name and email of the user are those of the body where it gives them and
\* the old ones where it does not, and every other user is as before
Overwritten ==
    /\ DOMAIN users = DOMAIN last.before
    /\ Is._id = last.id
    /\ Is.name = (IF last.body.name # "" THEN last.body.name ELSE Was.name)
    /\ Is.email = (IF last.body.email # "" THEN last.body.email ELSE Was.email)
    /\ \A j \in DOMAIN users \ {last.id} : users[j] = last.before[j]

Handled(op) == last.op = op /\ Reached(last.route, last.gate)
Body(x) == x.sent[1].body

\* last is a catway creation whose catwayNumber was already stored
AddsStoredNumber ==
    /\ Handled("catways.add")
    /\ \E i \in DOMAIN last.before.catways :
          last.before.catways[i].catwayNumber = last.body.catwayNumber

\* C13: no two stored catways have the same catwayNumber; creating a catway
\* whose catwayNumber is already stored is answered 400, with the
\* already-exists message when the body is otherwise valid, and leaves the
\* stored catways as they were
C13_Unique ==
    /\ \A i, j \in DOMAIN catways :
          i # j => catways[i].catwayNumber # catways[j].catwayNumber
    /\ AddsStoredNumber =>
          /\ Statuses(last.x) = <<400>>
          /\ catways = last.before.catways
          /\ CatwayErrors(last.body) = {}
                 => Body(last.x) = {"Ce numero de catway existe deja"}

C13_Witness ==
    /\ AddsStoredNumber
    /\ Cardinality(DOMAIN catways) = 2
    /\ last.body.boatName = "Sirocco"
    /\ Body(last.x) = {"Ce numero de catway existe deja"}

\* last is a reservation add that went on to validation and save: last.t is
\* the instant of creation, last.catway the catway as it was read
Creation == Handled("reservations.add") /\ last.catway # Null
Dated == last.body.checkIn # NoDate /\ last.body.checkOut # NoDate

\* C14: an add with checkOut not strictly after checkIn, or with checkIn
\* earlier than the instant of creation, is answered 400 and stores nothing;
\* with a catway that was found, a valid client name, checkIn at or after the
\* instant of creation and checkOut strictly after checkIn it is stored; every
\* stored reservation has checkOut strictly after checkIn
C14_Dates ==
    /\ (Creation /\ Dated
           /\ (last.body.checkOut <= last.body.checkIn \/ last.body.checkIn < last.t))
       => /\ Statuses(last.x) = <<400>>
          /\ last.stored = MalformedId
          /\ reservations = last.before.reservations
    /\ (Creation /\ Dated
           /\ ClientNameError(last.body.clientName) = {}
           /\ last.body.checkIn >= last.t
           /\ last.body.checkOut > last.body.checkIn)
       => /\ Statuses(last.x) = <<200>>
          /\ last.stored \in DOMAIN reservations
          /\ last.stored \notin DOMAIN last.before.reservations
          /\ reservations[last.stored].checkIn = last.body.checkIn
          /\ reservations[last.stored].checkOut = last.body.checkOut
          /\ reservations[last.stored].clientName = last.body.clientName
    /\ \A i \in DOMAIN reservations :
          /\ reservations[i].checkIn # NoDate
          /\ reservations[i].checkOut > reservations[i].checkIn

C14_Witness ==
    /\ Creation
    /\ last.body.checkOut > last.body.checkIn
    /\ last.body.checkIn < last.t
    /\ last.body.clientName = "Durand"
    /\ Statuses(last.x) = <<400>>
    /\ Body(last.x) = {"La date de check-in ne peut pas etre dans le passe."}
    /\ DOMAIN reservations = {}

\* C15: a reservation created through the catway-scoped add has the
\* catwayNumber and the boatName of the catway of the URL as it was read; a
\* boatName or catwayNumber of the request body changes nothing of it
C15_Copied ==
    /\ \A r \in reading : r.catway._id = r.id
    /\ (Creation /\ last.stored # MalformedId) =>
          /\ last.catway._id = last.id
          /\ reservations[last.stored] =
                 [_id |-> last.stored,
                  catwayNumber |-> last.catway.catwayNumber,
                  clientName |-> last.body.clientName,
                  boatName |-> last.catway.boatName,
                  checkIn |-> last.body.checkIn,
                  checkOut |-> last.body.checkOut]

C15_Witness ==
    /\ Creation
    /\ last.stored \in DOMAIN reservations
    /\ last.body.boatName = "Pirate"
    /\ last.body.catwayNumber = 9
    /\ reservations[last.stored].boatName = "Ondine"
    /\ reservations[last.stored].catwayNumber = 1
    /\ catways[last.id].boatName = "Zephyr"

\* the family of the operation of last, and the collection it addresses as
\* the operation found it
Family ==
    IF last.op \in {"users.getById", "users.edit", "users.update", "users.delete",
                    "users.add"} THEN "users"
    ELSE IF last.op \in {"catways.getById", "catways.edit", "catways.update",
                         "catways.delete", "catways.add"} THEN "catways"
    ELSE IF last.op \in {"reservations.getbyId", "reservations.delete"}
    THEN "reservations"
    ELSE "none"

Found ==
    CASE Family = "users" ->
             IF last.op = "users.update" THEN last.before ELSE users
      [] Family = "catways" -> last.before.catways
      [] Family = "reservations" -> last.before.reservations

\* last is a get, edit, update or delete by identifier that reached its handler
ById ==
    /\ Family # "none"
    /\ last.op \notin {"users.add", "catways.add"}
    /\ Reached(last.route, last.gate)

\* last was answered, and answered out of a rejection of the store
Answered == last.op \notin {"none", "userService.updateUser"} /\ Len(last.x.sent) > 0
StoreFailed == Answered /\ StoreError \in Body(last.x)

Unchanged ==
    CASE Family = "users" -> last.op = "users.update" => users = last.before
      [] Family = "catways" -> catways = last.before.catways
      [] Family = "reservations" -> reservations = last.before.reservations

NotFoundMessages ==
    {"Utilisateur non trouve", "Catway non trouve", "Reservation non trouvee"}

\* C16: a get, edit, update or delete of a catway, a reservation or a user by
\* a well-formed identifier that matches no stored record is answered 404 with
\* a not-found message and changes nothing in the store
C16_NotFound ==
    (ById /\ ~StoreFailed /\ last.id # MalformedId /\ last.id \notin DOMAIN Found)
    => /\ Statuses(last.x) = <<404>>
       /\ Body(last.x) \subseteq NotFoundMessages
       /\ Body(last.x) # {}
       /\ Unchanged

\* last is a create or an update that asks for a unique key another record holds
Collides ==
    /\ Family \in {"users", "catways"}
    /\ last.op \in {"users.add", "users.update", "catways.add", "catways.update"}
    /\ Reached(last.route, last.gate)
    /\ ~StoreFailed
    /\ last.op \in {"users.update", "catways.update"} => last.id \in DOMAIN Found
    /\ IF Family = "users"
       THEN /\ ValidationErrors(last.body.name, last.body.email, last.body.password)
                   = {} \/ last.op = "users.update"
            /\ last.body.email # ""
            /\ \E i \in DOMAIN Found :
                  i # last.id /\ Found[i].email = last.body.email
       ELSE /\ CatwayErrors(last.body) = {} \/ last.op = "catways.update"
            /\ last.body.catwayNumber # 0
            /\ \E i \in DOMAIN Found :
                  i # last.id /\ Found[i].catwayNumber = last.body.catwayNumber

AlreadyExistsMessages ==
    {"Ce numero de catway existe deja",
     "Cet email existe deja dans notre base de donnees"}

\* C17: a create or an update that would give two records the same
\* catwayNumber or the same email is answered 400 with an already-exists
\* message and leaves the store unchanged
C17_Duplicate ==
    Collides
    => /\ Statuses(last.x) = <<400>>
       /\ Body(last.x) \subseteq AlreadyExistsMessages
       /\ Body(last.x) # {}
       /\ Unchanged

\* the status with which the family's get by identifier answers a malformed one
FamilyStatus ==
    CASE Family = "users" ->
             Statuses(UserGetByIdHandler(NewExchange, MalformedId))
      [] Family = "catways" ->
             Statuses(CatwayGetByIdHandler(NewExchange, MalformedId))
      [] Family = "reservations" ->
             Statuses(ReservationGetByIdHandler(NewExchange, MalformedId))

\* C18: within a family every endpoint answers a malformed identifier with one
\* and the same status, 400 or 404, and the enter-a-valid-identifier message,
\* never with 500 or 501
C18_Malformed ==
    (ById /\ last.id = MalformedId)
    => /\ Statuses(last.x) \in {<<400>>, <<404>>}
       /\ Statuses(last.x) = FamilyStatus
       /\ Body(last.x) = {"Entrez un identifiant valide"}

\* C19: a store error in any controller operation of any family is answered
\* with status 500
C19_Unexpected == StoreFailed => Statuses(last.x) = <<500>>

\* C20: the body of an unexpected-failure response carries the generic
\* internal-error message and nothing of the underlying error
C20_Generic ==
    (Answered /\ Statuses(last.x) \in {<<500>>, <<501>>})
    => Body(last.x) \subseteq {"Internal Server Error"}


\* the paths of last's input that the schema of its family refuses: on a
\* create every path, on an update the paths the request sets
UserFailing(body, create) ==
    {f \in {"name"} : (create \/ body.name # "") /\ NameError(body.name) # {}}
        \cup {f \in {"email"} : (create \/ body.email # "") /\ EmailError(body.email) # {}}
        \cup {f \in {"password"} :
                 (create \/ body.password # "") /\ PasswordError(body.password) # {}}

CatwayFailing(body, create) ==
    {f \in {"catwayNumber"} :
        (create \/ body.catwayNumber # 0) /\ CatwayNumberError(body.catwayNumber) # {}}
        \cup {f \in {"type"} : (create \/ body.type # "") /\ TypeErrorOf(body.type) # {}}
        \cup {f \in {"catwayState"} :
                 (create \/ body.catwayState # "")
                     /\ CatwayStateError(body.catwayState) # {}}
        \cup {f \in {"boatName"} :
                 (create \/ body.boatName # "") /\ BoatNameError(body.boatName) # {}}

ReservationFailing(body, t) ==
    {f \in {"clientName"} : ClientNameError(body.clientName) # {}}
        \cup {f \in {"checkIn"} : CheckInError(body.checkIn, t) # {}}
        \cup {f \in {"checkOut"} : CheckOutError(body.checkOut, body.checkIn) # {}}

\* last is a create or an update that came to the point of checking its input
\* against the schema: the gate let it through, an update's identifier is
\* well-formed, and the user or the catway a handler reads first was read
Validates ==
    CASE last.op \in {"users.add", "catways.add"} -> Reached(last.route, last.gate)
      [] last.op = "users.update" ->
             /\ Reached(last.route, last.gate)
             /\ ~StoreFailed
             /\ last.id \in DOMAIN last.before
      [] last.op = "catways.update" ->
             Reached(last.route, last.gate) /\ last.id # MalformedId
      [] last.op = "reservations.add" -> Creation
      [] OTHER -> FALSE

Failing ==
    CASE last.op = "users.add" -> UserFailing(last.body, TRUE)
      [] last.op = "users.update" -> UserFailing(last.body, FALSE)
      [] last.op = "catways.add" -> CatwayFailing(last.body, TRUE)
      [] last.op = "catways.update" -> CatwayFailing(last.body, FALSE)
      [] last.op = "reservations.add" -> ReservationFailing(last.body, last.t)

StoreAsBefore ==
    IF last.op \in {"users.add", "users.update", "users.delete"}
    THEN users = last.before
    ELSE catways = last.before.catways /\ reservations = last.before.reservations

\* C21: a create or an update of a catway, a reservation or a user whose input
\* the schema refuses is answered 400 with the error view carrying one message
\* for each refused field, and the store stays as it was
C21_Validation ==
    (Validates /\ Failing # {})
    => /\ Statuses(last.x) = <<400>>
       /\ last.x.sent[1].kind = "render"
       /\ last.x.sent[1].view = "error/error"
       /\ Cardinality(Body(last.x)) = Cardinality(Failing)
       /\ StoreAsBefore

\* last is a reservation add that went on to its save when the catway it had
\* read was no longer stored
CatwayGone == Creation /\ last.id \notin DOMAIN last.before.catways

\* C22: a reservation add whose catway is deleted between its read of the
\* catway and its save goes on as if the catway were there: with a valid body
\* it answers 200 and stores a reservation with the catwayNumber and the
\* boatName of the catway as it was read
C22_Race ==
    (CatwayGone /\ ReservationFailing(last.body, last.t) = {} /\ ~StoreFailed)
    => /\ Statuses(last.x) = <<200>>
       /\ last.stored \in DOMAIN reservations
       /\ last.stored \notin DOMAIN last.before.reservations
       /\ reservations[last.stored].catwayNumber = last.catway.catwayNumber
       /\ reservations[last.stored].boatName = last.catway.boatName

\* the add reported success and the reservation's catwayNumber is the number
\* of no stored catway
C22_Witness ==
    /\ CatwayGone
    /\ Statuses(last.x) = <<200>>
    /\ Body(last.x) = {"La reservation a ete creee avec succes"}
    /\ last.stored \in DOMAIN reservations
    /\ \A i \in DOMAIN catways :
          catways[i].catwayNumber # reservations[last.stored].catwayNumber

\* last is an operation of the catways or of the reservations controller
Harboured ==
    last.op \in {"catways.getAll", "catways.getById", "catways.edit", "catways.add",
                 "catways.update", "catways.delete", "reservations.getAllOfCatway",
                 "reservations.getAll", "reservations.getbyId",
                 "reservations.renderAddForm", "reservations.add",
                 "reservations.delete"}

\* last is a reservation delete that found its record
Deleted(op, coll) ==
    /\ Handled(op)
    /\ ~StoreFailed
    /\ last.id \in DOMAIN coll

\* C23: a stored reservation keeps every field for as long as it is stored; the
\* set of reservations gains the record of an add that saved, loses the
\* record a delete names, and is otherwise left as it was, by a catway update
\* and a catway delete in particular
C23_Frame ==
    Harboured =>
        /\ \A i \in DOMAIN reservations \cap DOMAIN last.before.reservations :
              reservations[i] = last.before.reservations[i]
        /\ IF Creation /\ last.stored # MalformedId
           THEN DOMAIN reservations = DOMAIN last.before.reservations \cup {last.stored}
           ELSE IF Deleted("reservations.delete", last.before.reservations)
           THEN DOMAIN reservations = DOMAIN last.before.reservations \ {last.id}
           ELSE reservations = last.before.reservations

\* a catway is deleted while a reservation carries its number
C23_Witness ==
    /\ Deleted("catways.delete", last.before.catways)
    /\ last.id \notin DOMAIN catways
    /\ \E i \in DOMAIN reservations :
          /\ reservations[i].catwayNumber = last.before.catways[last.id].catwayNumber
          /\ reservations[i].boatName = last.before.catways[last.id].boatName
          /\ reservations[i] = last.before.reservations[i]

\* last is a listing of the reservations of a catway, by a well-formed
\* identifier, that the store answered
Listing ==
    /\ Handled("reservations.getAllOfCatway")
    /\ last.id # MalformedId
    /\ ~StoreFailed

\* the stored reservations that carry the number of the catway of last
OfCatway ==
    {r \in Range(last.before.reservations) :
        r.catwayNumber = last.before.catways[last.id].catwayNumber}

\* C24: listing the reservations of a catway answers 404 'Catway non trouve'
\* when the identifier matches no catway, 404 'Aucune reservation trouvee'
\* when no stored reservation carries the catway's number, and otherwise 200
\* with exactly the stored reservations that carry it
C24_Listing ==
    Listing =>
        IF last.id \notin DOMAIN last.before.catways
        THEN /\ Statuses(last.x) = <<404>>
             /\ Body(last.x) = {"Catway non trouve"}
             /\ last.listed = {}
        ELSE IF OfCatway = {}
        THEN /\ Statuses(last.x) = <<404>>
             /\ Body(last.x) = {"Aucune reservation trouvee"}
             /\ last.listed = {}
        ELSE /\ Statuses(last.x) = <<200>>
             /\ last.listed = OfCatway

\* the reservations of one of two catways are listed
C24_Witness ==
    /\ Listing
    /\ Statuses(last.x) = <<200>>
    /\ Cardinality(last.listed) = 1
    /\ Cardinality(DOMAIN catways) = 2
    /\ \E i \in DOMAIN catways : i # last.id

\* last is a reservation add that was answered after its read of the catway,
\* for a well-formed identifier that matched no stored catway
NoCatway ==
    /\ Handled("reservations.add")
    /\ ~Creation
    /\ ~StoreFailed
    /\ last.id # MalformedId
    /\ last.id \notin DOMAIN last.before.catways

\* C25: a reservation add for an identifier that matches no stored catway is
\* answered 404 'Catway non trouve' and stores nothing; an add goes on to the
\* reservation store only with the catway its identifier names
C25_NoCatway ==
    /\ NoCatway =>
          /\ Statuses(last.x) = <<404>>
          /\ Body(last.x) = {"Catway non trouve"}
          /\ last.stored = MalformedId
          /\ reservations = last.before.reservations
    /\ \A r \in reading : r.catway # Null /\ r.catway._id = r.id
    /\ Creation => last.catway._id = last.id

\* the add named a catway that is not stored while another one is
C25_Witness ==
    /\ NoCatway
    /\ Statuses(last.x) = <<404>>
    /\ DOMAIN catways # {}
    /\ reading = {}
    /\ last.body.checkOut > last.body.checkIn

\* last is a delete of a catway or of a reservation that removed its record,
\* asked with a Referer header
Removed ==
    /\ (\/ Deleted("catways.delete", last.before.catways)
        \/ Deleted("reservations.delete", last.before.reservations))
    /\ last.referer # ""

Sent == last.x.sent[1]

SuccessMessage ==
    IF last.op = "catways.delete" THEN "Catway a ete supprime avec succes"
    ELSE "La reservation a ete supprimee avec succes"

RedirectTarget == IF last.op = "catways.delete" THEN "/catways" ELSE "/dashboard"

C27_Startup ==
    env = "" => ~up /\ last.op = "none" /\ issued = {}

Writes ==
    {"users.add", "users.update", "users.delete", "catways.add", "catways.update",
     "catways.delete", "reservations.add", "reservations.delete"}

AnsweredWithError ==
    /\ last.op \in Writes
    /\ Len(last.x.sent) > 0
    /\ last.x.sent[1].status >= 400

\* C28: a create, an update or a delete of a catway, a reservation or a user
\* that is answered with an error status (4xx or 5xx) leaves the store as it
\* was before the request; a delete answered with an error removed nothing
C28_ErrorKeepsStore == AnsweredWithError => StoreAsBefore

\* a dashboard render that showed a message of the session
ShowsMessage == last.op = "visit" /\ "after" \in DOMAIN last

\* C29: the success message of a delete is presented once: a dashboard render
\* shows a message only as the target of the redirect that answered a
\* reservation delete just before it, never after the message went out in a
\* JSON body or with a redirect to another page, and never one left over
C29_Once ==
    ShowsMessage =>
        /\ last.after.op = "reservations.delete"
        /\ Len(last.after.x.sent) > 0
        /\ last.after.x.sent[1].kind = "redirect"

\* authenticate with this email and password, against this users collection,
\* ends with a token: the user is found and bcrypt.compare answers true
Succeeds(coll, email, password) ==
    LET user == FindOne(coll, email)
    IN user # Null /\ BcryptCompare(password, user.password).response

\* the passwords other than the one supplied that logged the user in before
Previous ==
    {p \in Passwords \ {last.body.password} : Succeeds(last.before, Was.email, p)}

====
